---- MODULE Spec2Model ----
(***************************************************************************)
(* A model of synchy's reconciliation core: the URL normaliser, the        *)
(* duplicate matcher, the conflict detector, the merge strategies          *)
(* (src/core/merger.py, src/core/conflict_resolver.py), the change         *)
(* detector (src/core/change_detector.py), the sync journal                *)
(* (src/core/sync_metadata.py) and the sync engine                         *)
(* (src/core/sync_engine.py).                                              *)
(*                                                                         *)
(* Python strings are modelled as sequences of one-character strings, so   *)
(* that lower(), strip(), split() and urlparse() are computed character by *)
(* character.  The characters used are ASCII letters, digits, the space    *)
(* and the URL delimiters ":" "/" "." "?" "#" and "(" ")".  Titles, URLs,  *)
(* folder names and source names are such strings; dates are integers      *)
(* (microseconds); a favicon is a token compared by equality only.         *)
(***************************************************************************)
EXTENDS Integers, Sequences, FiniteSets, TLC

(***************************************************************************)
(* Let(e, LAMBDA v : body) is body with v bound to e: a local variable     *)
(* assigned once.                                                          *)
(***************************************************************************)
Let(v, F(_)) ==
    CHOOSE r \in { F(w) : w \in {v} } : TRUE

(***************************************************************************)
(* Python string primitives                                                *)
(***************************************************************************)
UpperChars ==
    << "A","B","C","D","E","F","G","H","I","J","K","L","M",
       "N","O","P","Q","R","S","T","U","V","W","X","Y","Z" >>

LowerChars ==
    << "a","b","c","d","e","f","g","h","i","j","k","l","m",
       "n","o","p","q","r","s","t","u","v","w","x","y","z" >>

DigitChars ==
    << "0","1","2","3","4","5","6","7","8","9" >>

Range(s) ==
    { s[i] : i \in 1..Len(s) }

\* str.lower() on one character
LowerChar(c) ==
    IF \E i \in 1..26 : UpperChars[i] = c
    THEN LowerChars[CHOOSE i \in 1..26 : UpperChars[i] = c]
    ELSE c

\* str.lower()
lower(s) ==
    [i \in 1..Len(s) |-> LowerChar(s[i])]

IsSpace(c) ==
    c = " "

RECURSIVE lstrip(_)
lstrip(s) ==
    IF s # <<>> /\ IsSpace(Head(s)) THEN lstrip(Tail(s)) ELSE s

RECURSIVE rstrip(_)
rstrip(s) ==
    IF s # <<>> /\ IsSpace(s[Len(s)]) THEN rstrip(SubSeq(s, 1, Len(s) - 1)) ELSE s

\* str.strip()
strip(s) ==
    rstrip(lstrip(s))

\* str.rstrip('/')
RECURSIVE rstrip_slash(_)
rstrip_slash(s) ==
    IF s # <<>> /\ s[Len(s)] = "/" THEN rstrip_slash(SubSeq(s, 1, Len(s) - 1)) ELSE s

\* str.find(c) from position `from` (1-based); 0 when absent
find(s, c, from) ==
    IF \E i \in from..Len(s) : s[i] = c
    THEN CHOOSE i \in from..Len(s) : s[i] = c /\ \A j \in from..(i - 1) : s[j] # c
    ELSE 0

\* s.startswith(p) at position i
MatchesAt(s, p, i) ==
    /\ i + Len(p) - 1 <= Len(s)
    /\ \A k \in 1..Len(p) : s[i + k - 1] = p[k]

\* str.replace(p, '') : every non-overlapping occurrence, left to right
RECURSIVE remove_all(_, _)
remove_all(s, p) ==
    IF s = <<>> THEN <<>>
    ELSE IF MatchesAt(s, p, 1) THEN remove_all(SubSeq(s, Len(p) + 1, Len(s)), p)
    ELSE <<Head(s)>> \o remove_all(Tail(s), p)

\* int(port) for a string of digits
RECURSIVE int_of(_)
int_of(s) ==
    IF s = <<>> THEN 0
    ELSE 10 * int_of(SubSeq(s, 1, Len(s) - 1))
         + ((CHOOSE i \in 1..10 : DigitChars[i] = s[Len(s)]) - 1)

isdigit(s) ==
    s # <<>> /\ \A i \in 1..Len(s) : \E d \in 1..10 : DigitChars[d] = s[i]

(***************************************************************************)
(* urllib.parse.urlparse, for URLs without "[", "]", "@", ";" and "%"      *)
(***************************************************************************)
SchemeChars ==
    Range(UpperChars) \cup Range(LowerChars) \cup Range(DigitChars) \cup {"+", "-", "."}

IsAlpha(c) ==
    c \in Range(UpperChars) \cup Range(LowerChars)

\* the earliest of "/", "?", "#" at or after position `from`; Len+1 when none
NetlocEnd(s, from) ==
    IF \E i \in from..Len(s) : s[i] \in {"/", "?", "#"}
    THEN CHOOSE i \in from..Len(s) :
            s[i] \in {"/", "?", "#"} /\ \A j \in from..(i - 1) : s[j] \notin {"/", "?", "#"}
    ELSE Len(s) + 1

\* scheme, url = url[:i].lower(), url[i + 1:] when url[:i] is a scheme
split_scheme(url) ==
    LET i == find(url, ":", 1)
    IN  IF i > 1 /\ IsAlpha(url[1]) /\ \A k \in 1..(i - 1) : url[k] \in SchemeChars
        THEN [scheme |-> lower(SubSeq(url, 1, i - 1)), url |-> SubSeq(url, i + 1, Len(url))]
        ELSE [scheme |-> <<>>, url |-> url]

\* netloc, url = _splitnetloc(url, 2) when url[:2] == '//'
split_netloc(url) ==
    IF MatchesAt(url, <<"/", "/">>, 1)
    THEN [netloc |-> SubSeq(url, 3, NetlocEnd(url, 3) - 1),
          url |-> SubSeq(url, NetlocEnd(url, 3), Len(url))]
    ELSE [netloc |-> <<>>, url |-> url]

\* url, rest = url.split(c, 1) when c in url
split_once(url, c) ==
    LET i == find(url, c, 1)
    IN  IF i > 0
        THEN [url |-> SubSeq(url, 1, i - 1), rest |-> SubSeq(url, i + 1, Len(url))]
        ELSE [url |-> url, rest |-> <<>>]

urlparse(url) ==
    Let(split_scheme(lstrip(url)), LAMBDA s :
    Let(split_netloc(s.url), LAMBDA n :
    Let(split_once(n.url, "#"), LAMBDA f :
    Let(split_once(f.url, "?"), LAMBDA q :
        [scheme |-> s.scheme, netloc |-> n.netloc, path |-> q.url,
         query |-> q.rest, fragment |-> f.rest]))))

\* ParseResult.hostname / the port text after the first ":" of the netloc
hostname(netloc) ==
    lower(split_once(netloc, ":").url)

port_text(netloc) ==
    split_once(netloc, ":").rest

\* ParseResult.port raises ValueError on a non-numeric or out-of-range port
port_raises(netloc) ==
    port_text(netloc) # <<>>
    /\ (~isdigit(port_text(netloc)) \/ int_of(port_text(netloc)) > 65535)

\* ParseResult.port; 0 stands for None as well (both are falsy)
port(netloc) ==
    IF port_text(netloc) = <<>> THEN 0 ELSE int_of(port_text(netloc))

\* urlunparse((scheme, netloc, path, '', query, '')) for an http(s) scheme
urlunparse(scheme, netloc, path, query) ==
    LET p == IF path # <<>> /\ path[1] # "/" THEN <<"/">> \o path ELSE path
    IN  scheme \o <<":", "/", "/">> \o netloc \o p
        \o (IF query # <<>> THEN <<"?">> \o query ELSE <<>>)

HTTP ==
    <<"h", "t", "t", "p">>

HTTPS ==
    <<"h", "t", "t", "p", "s">>

\* the value standing for a ValueError raised out of _normalize_url
ValueError ==
    <<"ValueError">>

(***************************************************************************)
(* BookmarkMerger._normalize_url                                           *)
(***************************************************************************)
\* if url.endswith('/') and len(url) > 1: url = url[:-1]
remove_trailing_slash(url) ==
    IF url # <<>> /\ url[Len(url)] = "/" /\ Len(url) > 1
    THEN SubSeq(url, 1, Len(url) - 1) ELSE url

\* if '#' in url: url = url.split('#')[0]
remove_fragment(url) ==
    IF find(url, "#", 1) > 0 THEN SubSeq(url, 1, find(url, "#", 1) - 1) ELSE url

\* the default port removed; reading parsed.port may raise
remove_default_port(url, parsed) ==
    IF port_raises(parsed.netloc) THEN ValueError
    ELSE IF /\ port(parsed.netloc) # 0
            /\ \/ (parsed.scheme = HTTP /\ port(parsed.netloc) = 80)
               \/ (parsed.scheme = HTTPS /\ port(parsed.netloc) = 443)
    THEN urlunparse(parsed.scheme, hostname(parsed.netloc), parsed.path, parsed.query)
    ELSE url

normalize_url(url) ==
    Let(remove_fragment(remove_trailing_slash(strip(lower(url)))), LAMBDA normalized :
    Let(urlparse(normalized), LAMBDA parsed :
        remove_default_port(normalized, parsed)))

(***************************************************************************)
(* ConflictResolver._normalize_url                                         *)
(***************************************************************************)
\* if url.endswith('/'): url = url[:-1]
conflict_remove_trailing_slash(url) ==
    IF url # <<>> /\ url[Len(url)] = "/" THEN SubSeq(url, 1, Len(url) - 1) ELSE url

conflict_normalize_url(url) ==
    conflict_remove_trailing_slash(strip(lower(url)))

(***************************************************************************)
(* The object heap.  A Bookmark or BookmarkFolder object (src/core/        *)
(* models.py) is a heap cell; its identity is its index in the heap.  A    *)
(* folder's children list holds object identities, so that aliasing and    *)
(* in-place mutation are visible.                                          *)
(***************************************************************************)
\* Bookmark(title, url, date_added, date_modified, favicon, tags)
Bookmark(title, url, date_added, date_modified, favicon, tags) ==
    [kind |-> "bookmark", title |-> title, url |-> url, date_added |-> date_added,
     date_modified |-> date_modified, favicon |-> favicon, tags |-> tags]

\* BookmarkFolder(name, date_added, date_modified, children)
BookmarkFolder(name, date_added, date_modified, children) ==
    [kind |-> "folder", name |-> name, date_added |-> date_added,
     date_modified |-> date_modified, children |-> children]

isBookmark(h, id) ==
    h[id].kind = "bookmark"

isFolder(h, id) ==
    h[id].kind = "folder"

\* a constructor call: the new object gets the next identity
alloc(h, obj) ==
    [h |-> Append(h, obj), id |-> Len(h) + 1]

\* BookmarkFolder.add_child
add_child(h, folder, child) ==
    [h EXCEPT ![folder].children = Append(@, child)]

\* BookmarkFolder.get_all_bookmarks: the records, depth first, in display order
RECURSIVE get_all_bookmarks(_, _)
RECURSIVE get_all_bookmarks_of(_, _)
get_all_bookmarks(h, folder) ==
    get_all_bookmarks_of(h, h[folder].children)

get_all_bookmarks_of(h, kids) ==
    IF kids = <<>> THEN <<>>
    ELSE (IF isBookmark(h, Head(kids)) THEN <<Head(kids)>>
          ELSE get_all_bookmarks(h, Head(kids)))
         \o get_all_bookmarks_of(h, Tail(kids))

\* every object reachable from an object, itself included
RECURSIVE reachable(_, _)
RECURSIVE reachable_of(_, _)
reachable(h, id) ==
    IF isBookmark(h, id) THEN {id} ELSE {id} \cup reachable_of(h, h[id].children)

reachable_of(h, kids) ==
    IF kids = <<>> THEN {} ELSE reachable(h, Head(kids)) \cup reachable_of(h, Tail(kids))

(***************************************************************************)
(* Trees as values: what an object denotes, identities forgotten.  An      *)
(* adapter read builds a tree of fresh objects from such a value (load);   *)
(* deref reads the value back.                                             *)
(***************************************************************************)
RECURSIVE deref(_, _)
RECURSIVE deref_of(_, _)
deref(h, id) ==
    IF isBookmark(h, id) THEN h[id]
    ELSE [h[id] EXCEPT !.children = deref_of(h, h[id].children)]

deref_of(h, kids) ==
    IF kids = <<>> THEN <<>>
    ELSE <<deref(h, Head(kids))>> \o deref_of(h, Tail(kids))

RECURSIVE load(_, _)
RECURSIVE load_children(_, _, _)
load(h, v) ==
    IF v.kind = "bookmark" THEN alloc(h, v)
    ELSE Let(alloc(h, [v EXCEPT !.children = <<>>]), LAMBDA a :
             [h |-> load_children(a.h, a.id, v.children), id |-> a.id])

load_children(h, folder, vs) ==
    IF vs = <<>> THEN h
    ELSE Let(load(h, Head(vs)), LAMBDA c :
             load_children(add_child(c.h, folder, c.id), folder, Tail(vs)))

\* the records of a tree value, depth first
RECURSIVE records(_)
RECURSIVE records_of(_)
records(v) ==
    IF v.kind = "bookmark" THEN <<v>> ELSE records_of(v.children)

records_of(vs) ==
    IF vs = <<>> THEN <<>> ELSE records(Head(vs)) \o records_of(Tail(vs))

(***************************************************************************)
(* BookmarkMerger._deep_copy                                               *)
(***************************************************************************)
\* a copy that returns the object itself: the output would alias the input
deep_copy_alias(h, item) ==
    [h |-> h, id |-> item]

RECURSIVE deep_copy(_, _)
RECURSIVE deep_copy_children(_, _, _)
deep_copy(h, item) ==
    IF isBookmark(h, item)
    THEN alloc(h, Bookmark(h[item].title, h[item].url, h[item].date_added,
                           h[item].date_modified, h[item].favicon, h[item].tags))
    ELSE Let(alloc(h, BookmarkFolder(h[item].name, h[item].date_added,
                                     h[item].date_modified, <<>>)), LAMBDA a :
             [h |-> deep_copy_children(a.h, a.id, h[item].children), id |-> a.id])

deep_copy_children(h, folder, kids) ==
    IF kids = <<>> THEN h
    ELSE Let(deep_copy(h, Head(kids)), LAMBDA c :
             deep_copy_children(add_child(c.h, folder, c.id), folder, Tail(kids)))

(***************************************************************************)
(* ConflictResolver.detect_conflicts: the conflict list after the call     *)
(***************************************************************************)
conflict_kinds(b1, b2) ==
    (IF b1.title # b2.title THEN <<"title">> ELSE <<>>)
    \o (IF b1.date_added # b2.date_added THEN <<"date">> ELSE <<>>)
    \o (IF b1.favicon # b2.favicon THEN <<"metadata">> ELSE <<>>)

detect_conflicts(h, conflicts, bookmark1, bookmark2, source1_name, source2_name) ==
    IF conflict_normalize_url(h[bookmark1].url) # conflict_normalize_url(h[bookmark2].url)
    THEN conflicts
    ELSE Let(conflict_kinds(h[bookmark1], h[bookmark2]), LAMBDA conflict_type :
             IF conflict_type = <<>> THEN conflicts
             ELSE Append(conflicts,
                         [url |-> h[bookmark1].url,
                          bookmark1 |-> bookmark1, bookmark2 |-> bookmark2,
                          source1_name |-> source1_name, source2_name |-> source2_name,
                          conflict_type |-> conflict_type]))

(***************************************************************************)
(* BookmarkMerger._find_fuzzy_match: the first candidate with the same     *)
(* host ("www." removed) and the same path (trailing "/" removed); 0 is    *)
(* None                                                                    *)
(***************************************************************************)
WWW ==
    <<"w", "w", "w", ".">>

fuzzy_equal(url_a, url_b) ==
    Let(urlparse(normalize_url(url_a)), LAMBDA a :
    Let(urlparse(normalize_url(url_b)), LAMBDA b :
        /\ remove_all(a.netloc, WWW) = remove_all(b.netloc, WWW)
        /\ rstrip_slash(a.path) = rstrip_slash(b.path)))

RECURSIVE find_fuzzy_match(_, _, _)
find_fuzzy_match(h, bookmark, candidates) ==
    IF candidates = <<>> THEN 0
    ELSE IF fuzzy_equal(h[bookmark].url, h[Head(candidates)].url) THEN Head(candidates)
    ELSE find_fuzzy_match(h, bookmark, Tail(candidates))

(***************************************************************************)
(* BookmarkMerger._merge_keep_all                                          *)
(*                                                                         *)
(* A merge works on st = [h, conflicts, duplicate_matches]: the heap and   *)
(* the two accumulators of the merger object.  cfg holds the merger's      *)
(* strategy, enable_fuzzy_matching and enable_name_matching.               *)
(***************************************************************************)
url_key(b) ==
    normalize_url(b.url)

name_url_key(b) ==
    <<lower(b.title), normalize_url(b.url)>>

\* key in {Key(b): b for b in bms}
in_map(h, bms, Key(_), k) ==
    \E i \in 1..Len(bms) : Key(h[bms[i]]) = k

\* {Key(b): b for b in bms}[k]: a later record overwrites an earlier one
map_get(h, bms, Key(_), k) ==
    bms[CHOOSE i \in 1..Len(bms) :
            /\ Key(h[bms[i]]) = k
            /\ \A j \in (i + 1)..Len(bms) : Key(h[bms[j]]) # k]

\* "tree2_duplicates.add(normalized_url)", detect_conflicts and
\* "duplicate_matches.append((b1, b2, tier))"; acc = [dups, st]
record_match(acc, normalized_url, b1, b2, tier, source1_name, source2_name) ==
    [dups |-> acc.dups \cup {normalized_url},
     st |-> [acc.st EXCEPT
                !.conflicts = detect_conflicts(acc.st.h, @, b1, b2, source1_name, source2_name),
                !.duplicate_matches = Append(@, <<b1, b2, tier>>)]]

\* a round that tries the name+URL tier and the fuzzy tier whatever the tiers
\* before them have found
keep_all_match_every_tier(acc, b2, tree1_bookmarks, cfg, source1_name, source2_name) ==
    Let(normalize_url(acc.st.h[b2].url), LAMBDA normalized_url :
    Let(IF in_map(acc.st.h, tree1_bookmarks, url_key, normalized_url)
        THEN record_match(acc, normalized_url,
                          map_get(acc.st.h, tree1_bookmarks, url_key, normalized_url),
                          b2, "url", source1_name, source2_name)
        ELSE acc, LAMBDA a1 :
    Let(<<lower(acc.st.h[b2].title), normalized_url>>, LAMBDA nk :
    Let(IF /\ cfg.enable_name_matching
           /\ in_map(acc.st.h, tree1_bookmarks, name_url_key, nk)
        THEN record_match(a1, normalized_url,
                          map_get(acc.st.h, tree1_bookmarks, name_url_key, nk),
                          b2, "name+url", source1_name, source2_name)
        ELSE a1, LAMBDA a2 :
    Let(find_fuzzy_match(acc.st.h, b2, tree1_bookmarks), LAMBDA fuzzy_match :
        IF /\ cfg.enable_fuzzy_matching
           /\ fuzzy_match # 0
        THEN record_match(a2, normalized_url, fuzzy_match, b2, "fuzzy_url",
                          source1_name, source2_name)
        ELSE a2)))))

\* one round of the loop "for b2 in tree2_bookmarks"
keep_all_match(acc, b2, tree1_bookmarks, cfg, source1_name, source2_name) ==
    Let(normalize_url(acc.st.h[b2].url), LAMBDA normalized_url :
    Let(IF in_map(acc.st.h, tree1_bookmarks, url_key, normalized_url)
        THEN record_match(acc, normalized_url,
                          map_get(acc.st.h, tree1_bookmarks, url_key, normalized_url),
                          b2, "url", source1_name, source2_name)
        ELSE acc, LAMBDA a1 :
    Let(<<lower(acc.st.h[b2].title), normalized_url>>, LAMBDA nk :
    Let(IF /\ normalized_url \notin a1.dups
           /\ cfg.enable_name_matching
           /\ in_map(acc.st.h, tree1_bookmarks, name_url_key, nk)
        THEN record_match(a1, normalized_url,
                          map_get(acc.st.h, tree1_bookmarks, name_url_key, nk),
                          b2, "name+url", source1_name, source2_name)
        ELSE a1, LAMBDA a2 :
    Let(find_fuzzy_match(acc.st.h, b2, tree1_bookmarks), LAMBDA fuzzy_match :
        IF /\ normalized_url \notin a2.dups
           /\ cfg.enable_fuzzy_matching
           /\ fuzzy_match # 0
        THEN record_match(a2, normalized_url, fuzzy_match, b2, "fuzzy_url",
                          source1_name, source2_name)
        ELSE a2)))))

RECURSIVE keep_all_scan(_, _, _, _, _, _)
keep_all_scan(acc, tree2_bookmarks, tree1_bookmarks, cfg, source1_name, source2_name) ==
    IF tree2_bookmarks = <<>> THEN acc
    ELSE Let(keep_all_match(acc, Head(tree2_bookmarks), tree1_bookmarks, cfg,
                            source1_name, source2_name), LAMBDA next :
             keep_all_scan(next, Tail(tree2_bookmarks), tree1_bookmarks, cfg,
                           source1_name, source2_name))

\* f"{title} ({source_name})"
renamed_title(title, source_name) ==
    title \o <<" ", "(">> \o source_name \o <<")">>

\* a rename that renames nothing
rename_none(h, item, existing_urls, source_name) ==
    h

\* BookmarkMerger._rename_duplicates: mutates the titles in place
RECURSIVE rename_duplicates(_, _, _, _)
RECURSIVE rename_duplicates_in(_, _, _, _)
rename_duplicates(h, item, existing_urls, source_name) ==
    IF isBookmark(h, item)
    THEN IF normalize_url(h[item].url) \in existing_urls
         THEN [h EXCEPT ![item].title = renamed_title(@, source_name)]
         ELSE h
    ELSE rename_duplicates_in(h, h[item].children, existing_urls, source_name)

rename_duplicates_in(h, kids, existing_urls, source_name) ==
    IF kids = <<>> THEN h
    ELSE rename_duplicates_in(rename_duplicates(h, Head(kids), existing_urls, source_name),
                              Tail(kids), existing_urls, source_name)

\* a loop that stops after the first child
copy_first_into(h, merged, kids) ==
    IF kids = <<>> THEN h
    ELSE Let(deep_copy(h, Head(kids)), LAMBDA c : add_child(c.h, merged, c.id))

\* "for child in tree.children: merged.add_child(self._deep_copy(child))"
RECURSIVE copy_into(_, _, _)
copy_into(h, merged, kids) ==
    IF kids = <<>> THEN h
    ELSE Let(deep_copy(h, Head(kids)), LAMBDA c :
             copy_into(add_child(c.h, merged, c.id), merged, Tail(kids)))

\* "copied = deep_copy(child); _rename_duplicates(copied, ..); merged.add_child(copied)"
RECURSIVE copy_renamed_into(_, _, _, _, _)
copy_renamed_into(h, merged, kids, dups, source2_name) ==
    IF kids = <<>> THEN h
    ELSE Let(deep_copy(h, Head(kids)), LAMBDA c :
             copy_renamed_into(
                 add_child(rename_duplicates(c.h, c.id, dups, source2_name), merged, c.id),
                 merged, Tail(kids), dups, source2_name))

merge_keep_all(st, cfg, tree1, tree2, merged, source1_name, source2_name) ==
    Let(keep_all_scan([dups |-> {}, st |-> st], get_all_bookmarks(st.h, tree2),
                      get_all_bookmarks(st.h, tree1), cfg, source1_name, source2_name),
        LAMBDA acc :
    Let(copy_into(acc.st.h, merged, acc.st.h[tree1].children), LAMBDA h1 :
        [acc.st EXCEPT !.h = copy_renamed_into(h1, merged, h1[tree2].children,
                                               acc.dups, source2_name)]))

(***************************************************************************)
(* BookmarkMerger._merge_timestamp                                         *)
(***************************************************************************)
SOURCE_1 ==
    <<"S", "o", "u", "r", "c", "e", " ", "1">>

SOURCE_2 ==
    <<"S", "o", "u", "r", "c", "e", " ", "2">>

SECONDARY ==
    <<"S", "e", "c", "o", "n", "d", "a", "r", "y">>

\* url_map: a dict in insertion order, as a sequence of [key, val]
dict_has(d, k) ==
    \E i \in 1..Len(d) : d[i].key = k

dict_get(d, k) ==
    d[CHOOSE i \in 1..Len(d) : d[i].key = k].val

\* d[k] = v: a new key goes last, an old key keeps its place
dict_put(d, k, v) ==
    IF dict_has(d, k)
    THEN [i \in 1..Len(d) |-> IF d[i].key = k THEN [key |-> k, val |-> v] ELSE d[i]]
    ELSE Append(d, [key |-> k, val |-> v])

\* "for bookmark in tree1_bookmarks"; acc = [url_map, st]
RECURSIVE timestamp_scan1(_, _)
timestamp_scan1(acc, bms) ==
    IF bms = <<>> THEN acc
    ELSE Let(Head(bms), LAMBDA bookmark :
         Let(normalize_url(acc.st.h[bookmark].url), LAMBDA normalized_url :
         Let(IF ~dict_has(acc.url_map, normalized_url)
             THEN [acc EXCEPT !.url_map = dict_put(@, normalized_url, bookmark)]
             ELSE IF acc.st.h[bookmark].date_modified
                       > acc.st.h[dict_get(acc.url_map, normalized_url)].date_modified
             THEN [url_map |-> dict_put(acc.url_map, normalized_url, bookmark),
                   st |-> [acc.st EXCEPT !.conflicts =
                             detect_conflicts(acc.st.h, @,
                                              dict_get(acc.url_map, normalized_url),
                                              bookmark, SOURCE_1, SOURCE_1)]]
             ELSE acc, LAMBDA next :
             timestamp_scan1(next, Tail(bms)))))

\* a second loop in which a record of tree2 that is as new as the record
\* kept so far replaces it
RECURSIVE timestamp_scan2_ties(_, _)
timestamp_scan2_ties(acc, bms) ==
    IF bms = <<>> THEN acc
    ELSE Let(Head(bms), LAMBDA bookmark :
         Let(normalize_url(acc.st.h[bookmark].url), LAMBDA normalized_url :
         Let(IF ~dict_has(acc.url_map, normalized_url)
             THEN [acc EXCEPT !.url_map = dict_put(@, normalized_url, bookmark)]
             ELSE Let(dict_get(acc.url_map, normalized_url), LAMBDA existing :
                  [url_map |-> IF acc.st.h[bookmark].date_modified
                                    >= acc.st.h[existing].date_modified
                               THEN dict_put(acc.url_map, normalized_url, bookmark)
                               ELSE acc.url_map,
                   st |-> [acc.st EXCEPT !.conflicts =
                             detect_conflicts(acc.st.h, @, existing, bookmark,
                                              SOURCE_1, SOURCE_2)]]), LAMBDA next :
             timestamp_scan2_ties(next, Tail(bms)))))

\* "for bookmark in tree2_bookmarks"
RECURSIVE timestamp_scan2(_, _)
timestamp_scan2(acc, bms) ==
    IF bms = <<>> THEN acc
    ELSE Let(Head(bms), LAMBDA bookmark :
         Let(normalize_url(acc.st.h[bookmark].url), LAMBDA normalized_url :
         Let(IF ~dict_has(acc.url_map, normalized_url)
             THEN [acc EXCEPT !.url_map = dict_put(@, normalized_url, bookmark)]
             ELSE Let(dict_get(acc.url_map, normalized_url), LAMBDA existing :
                  [url_map |-> IF acc.st.h[bookmark].date_modified
                                    > acc.st.h[existing].date_modified
                               THEN dict_put(acc.url_map, normalized_url, bookmark)
                               ELSE acc.url_map,
                   st |-> [acc.st EXCEPT !.conflicts =
                             detect_conflicts(acc.st.h, @, existing, bookmark,
                                              SOURCE_1, SOURCE_2)]]), LAMBDA next :
             timestamp_scan2(next, Tail(bms)))))

dict_values(d) ==
    [i \in 1..Len(d) |-> d[i].val]

merge_timestamp(st, tree1, tree2, merged) ==
    Let(timestamp_scan1([url_map |-> <<>>, st |-> st], get_all_bookmarks(st.h, tree1)),
        LAMBDA a1 :
    Let(timestamp_scan2(a1, get_all_bookmarks(st.h, tree2)), LAMBDA a2 :
        [a2.st EXCEPT !.h = copy_into(a2.st.h, merged, dict_values(a2.url_map))]))

(***************************************************************************)
(* BookmarkMerger._merge_priority                                          *)
(***************************************************************************)
\* BookmarkMerger._filter_duplicates: [h, ret], ret = 0 for None
RECURSIVE filter_duplicates(_, _, _)
RECURSIVE filter_duplicates_in(_, _, _, _)
filter_duplicates(h, item, existing_urls) ==
    IF isBookmark(h, item)
    THEN [h |-> h, ret |-> IF normalize_url(h[item].url) \in existing_urls THEN 0 ELSE item]
    ELSE Let(filter_duplicates_in(h, h[item].children, existing_urls, <<>>), LAMBDA r :
             [h |-> [r.h EXCEPT ![item].children = r.filtered_children], ret |-> item])

filter_duplicates_in(h, kids, existing_urls, filtered_children) ==
    IF kids = <<>> THEN [h |-> h, filtered_children |-> filtered_children]
    ELSE Let(filter_duplicates(h, Head(kids), existing_urls), LAMBDA r :
             filter_duplicates_in(r.h, Tail(kids), existing_urls,
                                  IF r.ret # 0 THEN Append(filtered_children, r.ret)
                                  ELSE filtered_children))

\* "for b1 in primary_bookmarks: if normalize(b1.url) == normalized_url: ...; break":
\* the first primary record of that normalized URL, 0 when there is none
RECURSIVE first_same_url(_, _, _)
first_same_url(h, primary_bookmarks, normalized_url) ==
    IF primary_bookmarks = <<>> THEN 0
    ELSE IF normalize_url(h[Head(primary_bookmarks)].url) = normalized_url
    THEN Head(primary_bookmarks)
    ELSE first_same_url(h, Tail(primary_bookmarks), normalized_url)

\* "for b2 in secondary_bookmarks": the conflict with the first primary record
\* of the same normalized URL
RECURSIVE priority_conflicts(_, _, _, _)
priority_conflicts(st, secondary_bookmarks, primary_bookmarks, primary_name) ==
    IF secondary_bookmarks = <<>> THEN st
    ELSE Let(Head(secondary_bookmarks), LAMBDA b2 :
         Let(first_same_url(st.h, primary_bookmarks, normalize_url(st.h[b2].url)), LAMBDA b1 :
             priority_conflicts(
                 IF b1 # 0
                 THEN [st EXCEPT !.conflicts =
                          detect_conflicts(st.h, @, b1, b2, primary_name, SECONDARY)]
                 ELSE st,
                 Tail(secondary_bookmarks), primary_bookmarks, primary_name)))

\* "for child in secondary.children": copy, filter, add unless an emptied folder
RECURSIVE copy_filtered_into(_, _, _, _)
copy_filtered_into(h, merged, kids, primary_urls) ==
    IF kids = <<>> THEN h
    ELSE Let(deep_copy(h, Head(kids)), LAMBDA c :
         Let(filter_duplicates(c.h, c.id, primary_urls).h, LAMBDA h1 :
             copy_filtered_into(
                 IF (isFolder(h1, c.id) /\ h1[c.id].children # <<>>) \/ isBookmark(h1, c.id)
                 THEN add_child(h1, merged, c.id)
                 ELSE h1,
                 merged, Tail(kids), primary_urls)))

merge_priority(st, primary, secondary, merged, primary_name) ==
    Let(get_all_bookmarks(st.h, primary), LAMBDA primary_bookmarks :
    Let({ normalize_url(st.h[primary_bookmarks[i]].url) : i \in 1..Len(primary_bookmarks) },
        LAMBDA primary_urls :
    Let(priority_conflicts(st, get_all_bookmarks(st.h, secondary),
                           primary_bookmarks, primary_name), LAMBDA st1 :
    Let(copy_into(st1.h, merged, st1.h[primary].children), LAMBDA h1 :
        [st1 EXCEPT !.h = copy_filtered_into(h1, merged, h1[secondary].children,
                                             primary_urls)]))))

(***************************************************************************)
(* BookmarkMerger._merge_smart                                             *)
(*                                                                         *)
(* sm = [h, folder_map, url_set]: folder_map is a dict name -> folder in   *)
(* insertion order, url_set the set of url.lower() already placed.         *)
(***************************************************************************)
\* the throw-away folder BookmarkFolder(name="temp", date_added=datetime.now(),
\* date_modified=datetime.now(), children=[subchild]); it is never output
TEMP ==
    <<"t", "e", "m", "p">>

TEMP_DATE ==
    0

RECURSIVE add_tree_to_merged(_, _, _)
RECURSIVE smart_children(_, _, _)
RECURSIVE smart_subchildren(_, _, _, _)
add_tree_to_merged(sm, tree, merged) ==
    smart_children(sm, sm.h[tree].children, merged)

\* "for child in tree.children"
smart_children(sm, kids, merged) ==
    IF kids = <<>> THEN sm
    ELSE Let(Head(kids), LAMBDA child :
         Let(IF isFolder(sm.h, child)
             THEN Let(sm.h[child].name, LAMBDA folder_name :
                  Let(alloc(sm.h, BookmarkFolder(folder_name, sm.h[child].date_added,
                                                 sm.h[child].date_modified, <<>>)), LAMBDA a :
                      smart_subchildren(
                          IF ~dict_has(sm.folder_map, folder_name)
                          THEN [sm EXCEPT !.h = a.h,
                                          !.folder_map = dict_put(@, folder_name, a.id)]
                          ELSE sm,
                          folder_name, sm.h[child].children, merged)))
             ELSE IF lower(sm.h[child].url) \notin sm.url_set
             THEN Let(deep_copy(sm.h, child), LAMBDA c :
                      [sm EXCEPT !.h = add_child(c.h, merged, c.id),
                                 !.url_set = @ \cup {lower(sm.h[child].url)}])
             ELSE sm, LAMBDA next :
             smart_children(next, Tail(kids), merged)))

\* "for subchild in child.children"
smart_subchildren(sm, folder_name, subs, merged) ==
    IF subs = <<>> THEN sm
    ELSE Let(Head(subs), LAMBDA subchild :
         Let(IF isBookmark(sm.h, subchild)
             THEN IF lower(sm.h[subchild].url) \notin sm.url_set
                  THEN Let(deep_copy(sm.h, subchild), LAMBDA c :
                           [sm EXCEPT
                              !.h = add_child(c.h, dict_get(sm.folder_map, folder_name), c.id),
                              !.url_set = @ \cup {lower(sm.h[subchild].url)}])
                  ELSE sm
             ELSE Let(alloc(sm.h, BookmarkFolder(TEMP, TEMP_DATE, TEMP_DATE, <<subchild>>)),
                      LAMBDA temp :
                      add_tree_to_merged([sm EXCEPT !.h = temp.h], temp.id, merged)),
             LAMBDA next :
             smart_subchildren(next, folder_name, Tail(subs), merged)))

\* the loop left out: no folder of folder_map is added to the merged root
add_folders_none(h, merged, folders) ==
    h

\* "for folder in folder_map.values(): if folder.children: merged.add_child(folder)"
RECURSIVE add_folders(_, _, _)
add_folders(h, merged, folders) ==
    IF folders = <<>> THEN h
    ELSE add_folders(IF h[Head(folders)].children # <<>>
                     THEN add_child(h, merged, Head(folders)) ELSE h,
                     merged, Tail(folders))

merge_smart(st, tree1, tree2, merged) ==
    Let(add_tree_to_merged([h |-> st.h, folder_map |-> <<>>, url_set |-> {}], tree1, merged),
        LAMBDA sm1 :
    Let(add_tree_to_merged(sm1, tree2, merged), LAMBDA sm2 :
        [st EXCEPT !.h = add_folders(sm2.h, merged, dict_values(sm2.folder_map))]))

(***************************************************************************)
(* BookmarkMerger.merge                                                    *)
(*                                                                         *)
(* merger = [strategy, enable_fuzzy_matching, enable_name_matching,        *)
(* conflicts, duplicate_matches] is the merger object; the result is       *)
(* [h, merger, result] with result the identity of the merged root.        *)
(***************************************************************************)
Min(a, b) ==
    IF a <= b THEN a ELSE b

Max(a, b) ==
    IF a >= b THEN a ELSE b

MERGED_BOOKMARKS ==
    <<"M", "e", "r", "g", "e", "d", " ", "B", "o", "o", "k", "m", "a", "r", "k", "s">>

MergeStrategy ==
    {"keep_all", "timestamp", "firefox_priority", "chrome_priority", "smart"}

\* BookmarkMerger.__init__
BookmarkMerger(strategy, enable_fuzzy_matching, enable_name_matching) ==
    [strategy |-> strategy, enable_fuzzy_matching |-> enable_fuzzy_matching,
     enable_name_matching |-> enable_name_matching,
     conflicts |-> <<>>, duplicate_matches |-> <<>>]

\* "self.conflict_resolver = ConflictResolver(); self.duplicate_matches = []"
reset_accumulators(merger) ==
    [merger EXCEPT !.conflicts = <<>>, !.duplicate_matches = <<>>]

\* "if self.strategy == ... else: return self._merge_keep_all(...)"
merge_by_strategy(st, merger, tree1, tree2, merged, source1_name, source2_name) ==
    CASE merger.strategy = "keep_all" ->
           merge_keep_all(st, merger, tree1, tree2, merged, source1_name, source2_name)
      [] merger.strategy = "timestamp" ->
           merge_timestamp(st, tree1, tree2, merged)
      [] merger.strategy = "firefox_priority" ->
           merge_priority(st, tree1, tree2, merged, source1_name)
      [] merger.strategy = "chrome_priority" ->
           merge_priority(st, tree2, tree1, merged, source2_name)
      [] merger.strategy = "smart" ->
           merge_smart(st, tree1, tree2, merged)
      [] OTHER ->
           merge_keep_all(st, merger, tree1, tree2, merged, source1_name, source2_name)

merge(h, merger0, tree1, tree2, source1_name, source2_name) ==
    Let(reset_accumulators(merger0), LAMBDA merger :
    Let(alloc(h, BookmarkFolder(MERGED_BOOKMARKS,
                                Min(h[tree1].date_added, h[tree2].date_added),
                                Max(h[tree1].date_modified, h[tree2].date_modified),
                                <<>>)), LAMBDA m :
    Let(merge_by_strategy([h |-> m.h, conflicts |-> merger.conflicts,
                           duplicate_matches |-> merger.duplicate_matches],
                          merger, tree1, tree2, m.id, source1_name, source2_name),
        LAMBDA out :
        [h |-> out.h,
         merger |-> [merger EXCEPT !.conflicts = out.conflicts,
                                   !.duplicate_matches = out.duplicate_matches],
         result |-> m.id])))

\* _normalize_url(url) raises: the ValueError of parsed.port
normalize_raises(url) ==
    normalize_url(url) = ValueError

any_raises(h, bms) ==
    \E i \in 1..Len(bms) : normalize_raises(h[bms[i]].url)

\* the records a loop has gone through when _normalize_url raises
RECURSIVE before_raise(_, _)
before_raise(h, bms) ==
    IF bms = <<>> THEN <<>>
    ELSE IF normalize_raises(h[Head(bms)].url) THEN <<>>
    ELSE <<Head(bms)>> \o before_raise(h, Tail(bms))

\* merge raises: every strategy but smart normalizes the URL of every record
\* of both trees
merge_raises(h, merger, tree1, tree2) ==
    /\ merger.strategy # "smart"
    /\ any_raises(h, get_all_bookmarks(h, tree1) \o get_all_bookmarks(h, tree2))

\* the accumulators when the strategy raises: a comprehension over a tree
\* raises before anything is recorded, a loop after the records before the
\* raising one
raised_accumulators(st, merger, tree1, tree2, source1_name, source2_name) ==
    Let(get_all_bookmarks(st.h, tree1), LAMBDA bms1 :
    Let(get_all_bookmarks(st.h, tree2), LAMBDA bms2 :
        CASE merger.strategy = "timestamp" ->
               IF any_raises(st.h, bms1)
               THEN timestamp_scan1([url_map |-> <<>>, st |-> st], before_raise(st.h, bms1)).st
               ELSE timestamp_scan2(timestamp_scan1([url_map |-> <<>>, st |-> st], bms1),
                                    before_raise(st.h, bms2)).st
          [] merger.strategy = "firefox_priority" ->
               IF any_raises(st.h, bms1) THEN st
               ELSE priority_conflicts(st, before_raise(st.h, bms2), bms1, source1_name)
          [] merger.strategy = "chrome_priority" ->
               IF any_raises(st.h, bms2) THEN st
               ELSE priority_conflicts(st, before_raise(st.h, bms1), bms2, source2_name)
          [] OTHER ->
               IF any_raises(st.h, bms1) THEN st
               ELSE keep_all_scan([dups |-> {}, st |-> st], before_raise(st.h, bms2), bms1,
                                  merger, source1_name, source2_name).st))

\* the merger object after a merge that raised
merge_raised(h, merger0, tree1, tree2, source1_name, source2_name) ==
    Let(raised_accumulators([h |-> h, conflicts |-> <<>>, duplicate_matches |-> <<>>],
                            merger0, tree1, tree2, source1_name, source2_name), LAMBDA out :
        [merger0 EXCEPT !.conflicts = out.conflicts,
                        !.duplicate_matches = out.duplicate_matches])

\* BookmarkMerger.get_conflicts / get_duplicate_matches
get_conflicts(merger) ==
    merger.conflicts

get_duplicate_matches(merger) ==
    merger.duplicate_matches

(***************************************************************************)
(* src/utils/validators.py                                                 *)
(***************************************************************************)
is_valid_url(url) ==
    /\ url # <<>>
    /\ urlparse(url).scheme # <<>>
    /\ urlparse(url).netloc # <<>>

(***************************************************************************)
(* ChangeDetector (src/core/change_detector.py), on tree values.  A Python *)
(* dict is a sequence of [key, val] in insertion order.  The md5 digest of *)
(* "url|title|date_modified" is modelled by the triple it is computed      *)
(* from (md5 is taken to be collision free).                               *)
(***************************************************************************)
compute_bookmark_hash(bookmark) ==
    <<bookmark.url, bookmark.title, bookmark.date_modified>>

RECURSIVE hashes_of(_, _)
hashes_of(hashes, bms) ==
    IF bms = <<>> THEN hashes
    ELSE Let(dict_put(hashes, lower(Head(bms).url), compute_bookmark_hash(Head(bms))),
             LAMBDA next : hashes_of(next, Tail(bms)))

get_all_bookmark_hashes(tree) ==
    hashes_of(<<>>, records(tree))

dict_keys(d) ==
    [i \in 1..Len(d) |-> d[i].key]

\* a detector that never reports a change
detect_nothing(current_tree, previous_hashes) ==
    [new_bookmarks |-> <<>>, modified_bookmarks |-> <<>>, deleted_urls |-> <<>>]

detect_changes(current_tree, previous_hashes) ==
    LET current_bookmarks == records(current_tree)
        current_urls == { lower(current_bookmarks[i].url) : i \in 1..Len(current_bookmarks) }
        is_new(b) == ~dict_has(previous_hashes, lower(b.url))
        is_modified(b) == /\ dict_has(previous_hashes, lower(b.url))
                          /\ dict_get(previous_hashes, lower(b.url)) # compute_bookmark_hash(b)
        is_deleted(url) == lower(url) \notin current_urls
    IN  [new_bookmarks |-> SelectSeq(current_bookmarks, is_new),
         modified_bookmarks |-> SelectSeq(current_bookmarks, is_modified),
         deleted_urls |-> SelectSeq(dict_keys(previous_hashes), is_deleted)]

(***************************************************************************)
(* SyncMetadata (src/core/sync_metadata.py).  The metadata dict has one    *)
(* entry per "source:profile" key; the engine uses the two keys of its two *)
(* profiles.  An optional key is a sequence: empty when the key is absent, *)
(* its value alone when present.                                           *)
(***************************************************************************)
NONE ==
    "None"

Sources ==
    {"firefox", "chrome"}

\* _load_metadata of a missing file: {}
EmptyMetadata ==
    [s \in Sources |-> [last_sync |-> <<>>, bookmarks |-> <<>>]]

\* set_last_sync_time: the metadata after the call (then saved)
set_last_sync_time(metadata, source, sync_time) ==
    [metadata EXCEPT ![source].last_sync = <<sync_time>>]

\* a set_bookmark_hash that starts the map of the key anew at every call
set_bookmark_hash_anew(metadata, source, url, hash_value) ==
    [metadata EXCEPT ![source].bookmarks = <<dict_put(<<>>, url, hash_value)>>]

\* set_bookmark_hash: the metadata after the call (then saved)
set_bookmark_hash(metadata, source, url, hash_value) ==
    [metadata EXCEPT ![source].bookmarks =
        <<dict_put(IF @ = <<>> THEN <<>> ELSE @[1], url, hash_value)>>]

\* get_bookmark_hash: the hash alone, or nothing for None
get_bookmark_hash(metadata, source, url) ==
    IF metadata[source].bookmarks # <<>> /\ dict_has(metadata[source].bookmarks[1], url)
    THEN <<dict_get(metadata[source].bookmarks[1], url)>>
    ELSE <<>>

(***************************************************************************)
(* ChromeAdapter (src/browsers/chrome.py).  The Bookmarks file is          *)
(* [bookmark_bar, other, synced], the children of its three roots; a node  *)
(* is [type |-> "url", name, url, date_added, date_modified] or            *)
(* [type |-> "folder", name, date_added, date_modified, children].         *)
(* Timestamps are microseconds on both sides of the conversion.            *)
(***************************************************************************)
CHROME_BOOKMARKS ==
    <<"C", "h", "r", "o", "m", "e", " ", "B", "o", "o", "k", "m", "a", "r", "k", "s">>

BOOKMARK_BAR ==
    <<"B", "o", "o", "k", "m", "a", "r", "k", " ", "B", "a", "r">>

OTHER_NAME ==
    <<"O", "t", "h", "e", "r">>

SYNCED ==
    <<"S", "y", "n", "c", "e", "d">>

UNNAMED_FOLDER ==
    <<"U", "n", "n", "a", "m", "e", "d", " ", "F", "o", "l", "d", "e", "r">>

OTHER_LOWER ==
    <<"o", "t", "h", "e", "r">>

OTHER_BOOKMARKS_LOWER ==
    <<"o", "t", "h", "e", "r", " ", "b", "o", "o", "k", "m", "a", "r", "k", "s">>

\* ChromeAdapter._parse_chrome_node: what the node adds to its parent folder
RECURSIVE parse_chrome_node(_)
RECURSIVE parse_chrome_nodes(_)
parse_chrome_node(node) ==
    IF node.type = "url"
    THEN IF ~is_valid_url(node.url) THEN <<>>
         ELSE <<Bookmark(IF node.name # <<>> THEN node.name ELSE node.url, node.url,
                         node.date_added, node.date_modified, NONE, <<>>)>>
    ELSE <<BookmarkFolder(IF node.name # <<>> THEN node.name ELSE UNNAMED_FOLDER,
                          node.date_added, node.date_modified,
                          parse_chrome_nodes(node.children))>>

parse_chrome_nodes(nodes) ==
    IF nodes = <<>> THEN <<>>
    ELSE parse_chrome_node(Head(nodes)) \o parse_chrome_nodes(Tail(nodes))

\* ChromeAdapter.read_bookmarks, the file readable and the browser closed
chrome_read_bookmarks(file, now) ==
    LET root_folder(name, nodes) ==
            Let(parse_chrome_nodes(nodes), LAMBDA children :
                IF children # <<>> THEN <<BookmarkFolder(name, now, now, children)>>
                ELSE <<>>)
    IN  BookmarkFolder(CHROME_BOOKMARKS, now, now,
                       root_folder(BOOKMARK_BAR, file.bookmark_bar)
                       \o root_folder(OTHER_NAME, file.other)
                       \o root_folder(SYNCED, file.synced))

\* _bookmark_to_chrome_node / _folder_to_chrome_node
RECURSIVE to_chrome_node(_)
RECURSIVE to_chrome_nodes(_)
to_chrome_node(item) ==
    IF item.kind = "bookmark"
    THEN [type |-> "url", name |-> item.title, url |-> item.url,
          date_added |-> item.date_added, date_modified |-> item.date_modified]
    ELSE [type |-> "folder", name |-> item.name, date_added |-> item.date_added,
          date_modified |-> item.date_modified, children |-> to_chrome_nodes(item.children)]

to_chrome_nodes(items) ==
    IF items = <<>> THEN <<>>
    ELSE <<to_chrome_node(Head(items))>> \o to_chrome_nodes(Tail(items))

\* ChromeAdapter.write_bookmarks, a successful write: the new file
chrome_write_bookmarks(tree) ==
    LET goes_to_other(child) ==
            /\ child.kind = "folder"
            /\ lower(child.name) \in {OTHER_LOWER, OTHER_BOOKMARKS_LOWER}
        goes_to_bar(child) == ~goes_to_other(child)
    IN  [bookmark_bar |-> to_chrome_nodes(SelectSeq(tree.children, goes_to_bar)),
         other |-> to_chrome_nodes(SelectSeq(tree.children, goes_to_other)),
         synced |-> <<>>]

(***************************************************************************)
(* FirefoxAdapter (src/browsers/firefox.py).  places.sqlite is             *)
(* [roots, places]: roots maps each of the four root folders to its        *)
(* moz_bookmarks rows [position, item] in rowid order, an item being       *)
(* [type |-> "bookmark", title, url, dateAdded, lastModified] or           *)
(* [type |-> "folder", title, dateAdded, lastModified, children]; places   *)
(* is moz_places, a dict from url to title.  ORDER BY parent, position     *)
(* returns rows of equal position in rowid order.                          *)
(***************************************************************************)
FIREFOX_BOOKMARKS ==
    <<"F", "i", "r", "e", "f", "o", "x", " ", "B", "o", "o", "k", "m", "a", "r", "k", "s">>

\* read_bookmarks, root_folder_ids: the roots in the order they are read
root_folder_ids ==
    <<"menu", "toolbar", "unfiled", "mobile">>

\* write_bookmarks, root_mapping.get(folder_name, target_root)
root_mapping(folder_name) ==
    CASE folder_name \in {<<"B", "o", "o", "k", "m", "a", "r", "k", "s", " ", "B", "a", "r">>,
                          <<"B", "o", "o", "k", "m", "a", "r", "k", "s", " ", "T", "o", "o", "l", "b", "a", "r">>,
                          <<"B", "o", "o", "k", "m", "a", "r", "k", " ", "B", "a", "r">>} -> "toolbar"
      [] folder_name \in {<<"O", "t", "h", "e", "r", " ", "B", "o", "o", "k", "m", "a", "r", "k", "s">>,
                          <<"U", "n", "f", "i", "l", "e", "d", " ", "B", "o", "o", "k", "m", "a", "r", "k", "s">>,
                          <<"O", "t", "h", "e", "r">>} -> "unfiled"
      [] folder_name \in {<<"M", "o", "b", "i", "l", "e", " ", "B", "o", "o", "k", "m", "a", "r", "k", "s">>,
                          <<"S", "y", "n", "c", "e", "d">>} -> "mobile"
      [] OTHER -> "menu"

\* ORDER BY position: the rows by ascending position, ties in rowid order
RECURSIVE order_by_position(_)
order_by_position(rows) ==
    IF rows = <<>> THEN <<>>
    ELSE LET m == CHOOSE i \in 1..Len(rows) :
                    /\ \A j \in 1..Len(rows) : rows[i].position <= rows[j].position
                    /\ \A j \in 1..(i - 1) : rows[j].position > rows[i].position
         IN  <<rows[m].item>>
             \o order_by_position(SubSeq(rows, 1, m - 1) \o SubSeq(rows, m + 1, Len(rows)))

\* read_bookmarks, the row loop and build_tree: what an item adds to its parent
RECURSIVE build_tree(_, _, _)
RECURSIVE build_trees(_, _, _)
build_tree(places, item, now) ==
    LET date_added == IF item.dateAdded # 0 THEN item.dateAdded ELSE now
        date_modified == IF item.lastModified # 0 THEN item.lastModified ELSE now
    IN  IF item.type = "folder"
        THEN <<BookmarkFolder(item.title, date_added, date_modified,
                              build_trees(places, item.children, now))>>
        ELSE IF item.url = <<>> \/ ~is_valid_url(item.url) THEN <<>>
        ELSE <<Bookmark(IF dict_has(places, item.url) /\ dict_get(places, item.url) # <<>>
                        THEN dict_get(places, item.url)
                        ELSE IF item.title # <<>> THEN item.title ELSE item.url,
                        item.url, date_added, date_modified, NONE, <<>>)>>

build_trees(places, items, now) ==
    IF items = <<>> THEN <<>>
    ELSE build_tree(places, Head(items), now) \o build_trees(places, Tail(items), now)

\* FirefoxAdapter.read_bookmarks, the database readable and the browser closed
firefox_read_bookmarks(db, now) ==
    LET RECURSIVE of_roots(_)
        of_roots(ids) ==
            IF ids = <<>> THEN <<>>
            ELSE build_trees(db.places, order_by_position(db.roots[Head(ids)]), now)
                 \o of_roots(Tail(ids))
    IN  BookmarkFolder(FIREFOX_BOOKMARKS, now, now, of_roots(root_folder_ids))

\* _get_or_create_place over the bookmarks of a written item, in write order
RECURSIVE get_or_create_places(_, _)
get_or_create_places(places, bms) ==
    IF bms = <<>> THEN places
    ELSE Let(IF dict_has(places, Head(bms).url) /\ Head(bms).title = <<>> THEN places
             ELSE dict_put(places, Head(bms).url, Head(bms).title), LAMBDA next :
             get_or_create_places(next, Tail(bms)))

\* _write_bookmark_item: the moz_bookmarks item written for a tree item
RECURSIVE write_bookmark_item(_)
RECURSIVE write_bookmark_items(_)
write_bookmark_item(item) ==
    IF item.kind = "bookmark"
    THEN [type |-> "bookmark", title |-> item.title, url |-> item.url,
          dateAdded |-> item.date_added, lastModified |-> item.date_modified]
    ELSE [type |-> "folder", title |-> item.name, dateAdded |-> item.date_added,
          lastModified |-> item.date_modified,
          children |-> write_bookmark_items(item.children)]

write_bookmark_items(items) ==
    IF items = <<>> THEN <<>>
    ELSE <<write_bookmark_item(Head(items))>> \o write_bookmark_items(Tail(items))

\* FirefoxAdapter.write_bookmarks(tree), a committed write: the new database
\* (clear_existing keeps its default False at every call of the engine)
RECURSIVE write_children(_, _, _)
write_children(db, children, position) ==
    IF children = <<>> THEN db
    ELSE Let(Head(children), LAMBDA child :
         Let([roots |-> [db.roots EXCEPT
                            ![IF child.kind = "folder" THEN root_mapping(child.name)
                              ELSE "menu"] =
                                Append(@, [position |-> position,
                                           item |-> write_bookmark_item(child)])],
              places |-> get_or_create_places(db.places, records(child))], LAMBDA next :
             write_children(next, Tail(children), position + 1)))

firefox_write_bookmarks(db, tree) ==
    write_children(db, tree.children, 0)

(***************************************************************************)
(* SyncEngine (src/core/sync_engine.py): the state machine                 *)
(*                                                                         *)
(* engine      the SyncEngine object: sync_mode, backup_before_sync,       *)
(*             merger (accumulators held as values) and metadata, the      *)
(*             in-memory dict of its SyncMetadata                          *)
(* firefox_db  places.sqlite of the Firefox profile                        *)
(* chrome_file the Bookmarks file of the Chrome profile                    *)
(* journal     the contents of .sync_metadata.json                         *)
(* locked      what is_locked() of each adapter answers now                *)
(* clock       datetime.now()                                              *)
(* call        the running sync() call: its arguments, its position pc,    *)
(*             its local variables, and, once pc = "done", its result and  *)
(*             the exception sync() caught, if any                         *)
(* hist        history of the current call: the adapter and backup calls   *)
(*             made so far (trace), the passes begun, the journal when the *)
(*             call and when the current pass began, the locks when the    *)
(*             call began, and the number of calls made (runs)             *)
(* heap, mrun  the object heap and the merger call of the merge            *)
(*             specification SpecMerge                                     *)
(* fn          the call of a function on its own, in the specifications    *)
(*             SpecDetect and SpecNormalize: its argument and its results  *)
(***************************************************************************)
VARIABLES engine, firefox_db, chrome_file, journal, locked, clock, call, hist, heap, mrun, fn

vars ==
    <<engine, firefox_db, chrome_file, journal, locked, clock, call, hist, heap, mrun, fn>>

SyncDirection ==
    {"firefox_to_chrome", "chrome_to_firefox", "bidirectional"}

SyncMode ==
    {"full", "incremental", "merge"}

FIREFOX ==
    <<"F", "i", "r", "e", "f", "o", "x">>

CHROME ==
    <<"C", "h", "r", "o", "m", "e">>

\* sync() calls made in one behaviour
MaxRuns ==
    2

\* the profiles the engine is constructed on
InitialFirefox ==
    [roots |-> [menu |-> <<[position |-> 0,
                           item |-> [type |-> "bookmark", title |-> <<"A">>,
                                     url |-> <<"h", "t", "t", "p", ":", "/", "/", "x", "/", "a">>,
                                     dateAdded |-> 1, lastModified |-> 1]]>>,
                toolbar |-> <<>>, unfiled |-> <<>>, mobile |-> <<>>],
     places |-> <<[key |-> <<"h", "t", "t", "p", ":", "/", "/", "x", "/", "a">>, val |-> <<>>]>>]

InitialChrome ==
    [bookmark_bar |-> <<[type |-> "url", name |-> <<"B">>,
                         url |-> <<"h", "t", "t", "p", "s", ":", "/", "/", "w", "w", "w", ".", "x", "/", "a">>,
                         date_added |-> 2, date_modified |-> 2],
                        [type |-> "url", name |-> <<"C">>,
                         url |-> <<"x", "/", "c">>,
                         date_added |-> 2, date_modified |-> 2]>>,
     other |-> <<>>,
     synced |-> <<>>]

\* a Chrome profile with a record whose port is no number
InitialChromePort ==
    [bookmark_bar |-> <<[type |-> "url", name |-> <<"B">>,
                         url |-> <<"h", "t", "t", "p", "s", ":", "/", "/", "w", "w", "w", ".", "x", "/", "a">>,
                         date_added |-> 2, date_modified |-> 2],
                        [type |-> "url", name |-> <<"C">>,
                         url |-> <<"h", "t", "t", "p", ":", "/", "/", "x", ":", "a", "/", "c">>,
                         date_added |-> 2, date_modified |-> 2]>>,
     other |-> <<>>,
     synced |-> <<>>]

IdleCall ==
    [pc |-> "idle", direction |-> NONE, dry_run |-> FALSE, pass |-> NONE,
     firefox_tree |-> NONE, chrome_tree |-> NONE, merged_tree |-> NONE,
     success1 |-> FALSE, chrome_success |-> FALSE, firefox_success |-> FALSE,
     todo |-> <<>>, result |-> FALSE, error |-> NONE]

NoHistory ==
    [trace |-> <<>>, passes |-> <<>>, journal_at_call |-> EmptyMetadata,
     journal0 |-> EmptyMetadata, locked_at_start |-> [s \in Sources |-> FALSE],
     runs |-> 0]

NoMergeRun ==
    [phase |-> "none"]

\* no call of a function on its own
NoFn ==
    [op |-> "none"]

\* SyncEngine.__init__ on two existing profiles and no journal file
InitEngine ==
    /\ \E sync_mode \in SyncMode, backup_before_sync \in BOOLEAN, merge_strategy \in MergeStrategy :
          /\ sync_mode # "merge" => merge_strategy = "keep_all"
          /\ engine = [sync_mode |-> sync_mode,
                       backup_before_sync |-> backup_before_sync,
                       merger |-> BookmarkMerger(merge_strategy, TRUE, TRUE),
                       metadata |-> EmptyMetadata]
    /\ firefox_db = InitialFirefox
    /\ chrome_file \in {InitialChrome, InitialChromePort}
    /\ journal = EmptyMetadata
    /\ locked \in [Sources -> BOOLEAN]
    /\ clock = 3
    /\ call = IdleCall
    /\ hist = NoHistory

Init ==
    /\ InitEngine
    /\ heap = <<>>
    /\ mrun = NoMergeRun
    /\ fn = NoFn

\* one adapter or backup call of the current sync() call
Event(op, who, res) ==
    [op |-> op, who |-> who, pass |-> call.pass, res |-> res]

\* the SyncError classes sync() has an except clause for
SyncErrors ==
    {"BrowserLockedError", "PermissionError", "CorruptedDataError", "BrowserNotFoundError"}

\* the classes derived from Exception that reach sync(): its own and those of
\* the adapters (RuntimeError) and of urllib (ValueError)
Exceptions ==
    SyncErrors \cup {"RuntimeError", "ValueError"}

\* a sync() whose last clause "except Exception" is missing
caught_typed(e) ==
    e \in SyncErrors

\* the except clauses of sync(): the four typed ones, then "except Exception"
caught(e) ==
    e \in SyncErrors \/ e \in Exceptions

\* an exception leaves the pass: caught in sync() ("return False"), or
\* propagated to the caller of sync()
Raised(c, e) ==
    IF caught(e)
    THEN [c EXCEPT !.pc = "done", !.result = FALSE, !.error = e]
    ELSE [c EXCEPT !.pc = "raised", !.error = e]

\* a dispatch that runs the first direction twice
Returned_first_twice(c, r) ==
    IF c.direction = "bidirectional" /\ c.pass = "firefox_to_chrome" /\ ~c.success1
    THEN [c EXCEPT !.pc = "backup", !.success1 = TRUE]
    ELSE [c EXCEPT !.pc = "done", !.result = r]

\* a pass returns r to sync(): the second pass of a two-pass run follows the
\* first, otherwise sync() returns
Returned(c, r) ==
    IF c.direction = "bidirectional" /\ c.pass = "firefox_to_chrome"
    THEN [c EXCEPT !.pc = "backup", !.pass = "chrome_to_firefox", !.success1 = r]
    ELSE [c EXCEPT !.pc = "done",
                   !.result = IF c.direction = "bidirectional" /\ c.pass = "chrome_to_firefox"
                              THEN c.success1 /\ r ELSE r]

\* the history once call c (after its step) and journal j are in place
Recorded(c, j, events) ==
    IF c.pc # "done" /\ c.pass # call.pass
    THEN [hist EXCEPT !.trace = @ \o events, !.passes = Append(@, c.pass), !.journal0 = j]
    ELSE [hist EXCEPT !.trace = @ \o events]

(***************************************************************************)
(* The steps of sync()                                                     *)
(***************************************************************************)
\* a validation that checks Firefox alone
validate_firefox_access(lk, access) ==
    CASE lk.firefox -> "BrowserLockedError"
      [] ~lk.firefox /\ ~access.firefox -> "PermissionError"
      [] OTHER -> NONE

\* _validate_browser_access: the exception it raises, NONE when it returns
validate_browser_access(lk, access) ==
    CASE lk.firefox -> "BrowserLockedError"
      [] ~lk.firefox /\ ~access.firefox -> "PermissionError"
      [] ~lk.firefox /\ access.firefox /\ lk.chrome -> "BrowserLockedError"
      [] ~lk.firefox /\ access.firefox /\ ~lk.chrome /\ ~access.chrome -> "PermissionError"
      [] OTHER -> NONE

\* a dispatch that looks at the mode before the direction: in Merge mode
\* every call goes to _sync_bidirectional
first_pass_by_mode(direction, sync_mode) ==
    IF sync_mode = "merge" THEN "merge"
    ELSE IF direction # "bidirectional" THEN direction
    ELSE "firefox_to_chrome"

\* the pass sync() dispatches to first
first_pass(direction, sync_mode) ==
    IF direction # "bidirectional" THEN direction
    ELSE IF sync_mode = "merge" THEN "merge"
    ELSE "firefox_to_chrome"

\* _validate_bookmark_tree: TRUE, or FALSE when it raises CorruptedDataError
validate_bookmark_tree(tree) ==
    \A i \in 1..Len(records(tree)) : is_valid_url(records(tree)[i].url)

\* a backup that is made in a dry run as well
backup_always(backup_before_sync, dry_run) ==
    backup_before_sync

\* a backup that is never made
backup_never(backup_before_sync, dry_run) ==
    FALSE

\* "if self.backup_before_sync and not dry_run"
backup_wanted(backup_before_sync, dry_run) ==
    backup_before_sync /\ ~dry_run

\* a branch that looks at the Chrome result alone
chrome_succeeded(chrome_success, firefox_success) ==
    chrome_success

\* "if chrome_success and firefox_success" of _sync_bidirectional
both_succeeded(chrome_success, firefox_success) ==
    chrome_success /\ firefox_success

source_of(pass) ==
    IF pass = "chrome_to_firefox" THEN "chrome" ELSE "firefox"

target_of(pass) ==
    IF pass = "chrome_to_firefox" THEN "firefox" ELSE "chrome"

read_bookmarks(who) ==
    IF who = "firefox" THEN firefox_read_bookmarks(firefox_db, clock)
    ELSE chrome_read_bookmarks(chrome_file, clock)

\* the metadata calls after a successful write, in call order
RECURSIVE hash_calls(_, _)
hash_calls(targets, hashes) ==
    IF hashes = <<>> THEN <<>>
    ELSE [i \in 1..Len(targets) |->
             [op |-> "set_bookmark_hash", source |-> targets[i],
              url |-> Head(hashes).key, hash_value |-> Head(hashes).val]]
         \o hash_calls(targets, Tail(hashes))

metadata_calls(targets, tree, sync_time) ==
    <<[op |-> "set_last_sync_time", source |-> "firefox", sync_time |-> sync_time],
      [op |-> "set_last_sync_time", source |-> "chrome", sync_time |-> sync_time]>>
    \o hash_calls(targets, get_all_bookmark_hashes(tree))

\* the merger's accumulators with the records they refer to
merger_value(h, merger) ==
    [merger EXCEPT
        !.conflicts = [i \in 1..Len(merger.conflicts) |->
                          [merger.conflicts[i] EXCEPT !.bookmark1 = h[@], !.bookmark2 = h[@]]],
        !.duplicate_matches = [i \in 1..Len(merger.duplicate_matches) |->
                                  <<h[merger.duplicate_matches[i][1]],
                                    h[merger.duplicate_matches[i][2]],
                                    merger.duplicate_matches[i][3]>>]]

\* self.merger.merge(firefox_tree, chrome_tree, "Firefox", "Chrome") raises
merge_trees_raises(merger, firefox_tree, chrome_tree) ==
    Let(load(<<>>, firefox_tree), LAMBDA t1 :
    Let(load(t1.h, chrome_tree), LAMBDA t2 :
        merge_raises(t2.h, merger, t1.id, t2.id)))

\* the merger after that
merge_trees_raised(merger, firefox_tree, chrome_tree) ==
    Let(load(<<>>, firefox_tree), LAMBDA t1 :
    Let(load(t1.h, chrome_tree), LAMBDA t2 :
        merger_value(t2.h, merge_raised(t2.h, merger, t1.id, t2.id, FIREFOX, CHROME))))

\* a merge that does not reset: what the merger held before the call stays
\* in front of what the call adds
merge_trees_keeping(merger, firefox_tree, chrome_tree) ==
    Let(load(<<>>, firefox_tree), LAMBDA t1 :
    Let(load(t1.h, chrome_tree), LAMBDA t2 :
    Let(merge(t2.h, merger, t1.id, t2.id, FIREFOX, CHROME), LAMBDA m :
        [merged_tree |-> deref(m.h, m.result),
         merger |-> [merger_value(m.h, m.merger) EXCEPT
                        !.conflicts = merger.conflicts \o @,
                        !.duplicate_matches = merger.duplicate_matches \o @]])))

\* "merged_tree = self.merger.merge(firefox_tree, chrome_tree, "Firefox", "Chrome")"
merge_trees(merger, firefox_tree, chrome_tree) ==
    Let(load(<<>>, firefox_tree), LAMBDA t1 :
    Let(load(t1.h, chrome_tree), LAMBDA t2 :
    Let(merge(t2.h, merger, t1.id, t2.id, FIREFOX, CHROME), LAMBDA m :
        [merged_tree |-> deref(m.h, m.result), merger |-> merger_value(m.h, m.merger)])))

\* sync(direction, dry_run) up to the dispatch, _validate_browser_access included
Sync(direction, dry_run, access) ==
    /\ call.pc \in {"idle", "done"}
    /\ hist.runs < MaxRuns
    /\ LET c0 == [IdleCall EXCEPT !.direction = direction, !.dry_run = dry_run]
           e == validate_browser_access(locked, access)
           pass == first_pass(direction, engine.sync_mode)
           c1 == IF e # NONE THEN Raised(c0, e)
                 ELSE [c0 EXCEPT !.pass = pass,
                                 !.pc = IF pass = "merge" THEN "lockcheck" ELSE "backup"]
       IN  /\ call' = c1
           /\ hist' = [trace |-> <<>>,
                       passes |-> IF c1.pc = "done" THEN <<>> ELSE <<c1.pass>>,
                       journal_at_call |-> journal, journal0 |-> journal,
                       locked_at_start |-> locked, runs |-> hist.runs + 1]
    /\ UNCHANGED <<engine, firefox_db, chrome_file, journal, locked, clock, heap, mrun, fn>>

\* _sync_bidirectional: "Check if browsers are locked"
CheckLocked ==
    /\ call.pc = "lockcheck"
    /\ call' = IF locked.firefox THEN [call EXCEPT !.pc = "done", !.result = FALSE]
               ELSE IF locked.chrome THEN [call EXCEPT !.pc = "done", !.result = FALSE]
               ELSE [call EXCEPT !.pc = "backup"]
    /\ UNCHANGED <<engine, firefox_db, chrome_file, journal, locked, clock, hist, heap, mrun, fn>>

\* "Backup if enabled": backup_firefox then backup_chrome; what they return (a
\* path, or None when the copy failed) is discarded
Backup ==
    /\ call.pc = "backup"
    /\ call' = [call EXCEPT !.pc = "read"]
    /\ hist' = IF backup_wanted(engine.backup_before_sync, call.dry_run)
               THEN [hist EXCEPT !.trace = @ \o <<Event("backup", "firefox", "returned"),
                                                  Event("backup", "chrome", "returned")>>]
               ELSE hist
    /\ UNCHANGED <<engine, firefox_db, chrome_file, journal, locked, clock, heap, mrun, fn>>

\* "Read Firefox bookmarks" / "Read Chrome bookmarks" of a pass: read_bookmarks
\* of the source and _validate_bookmark_tree, then the dispatch on mode and
\* dry_run.  read_bookmarks raises when the browser is locked and when the
\* profile cannot be read (ok = FALSE).
ReadSource(ok) ==
    /\ call.pc = "read"
    /\ LET who == source_of(call.pass)
           tree == read_bookmarks(who)
           c == IF who = "firefox" THEN [call EXCEPT !.firefox_tree = tree]
                ELSE [call EXCEPT !.chrome_tree = tree]
           c1 == IF locked[who] \/ ~ok THEN Raised(call, "CorruptedDataError")
                 ELSE IF ~validate_bookmark_tree(tree) THEN Raised(call, "CorruptedDataError")
                 ELSE IF call.pass = "merge" THEN [c EXCEPT !.pc = "read_chrome"]
                 ELSE IF engine.sync_mode = "incremental" THEN [c EXCEPT !.pc = "previous"]
                 ELSE IF call.dry_run THEN Returned(c, TRUE)
                 ELSE [c EXCEPT !.pc = "write"]
           res == IF locked[who] \/ ~ok THEN "raise" ELSE "ok"
       IN  /\ call' = c1
           /\ hist' = Recorded(c1, journal, <<Event("read", who, res)>>)
    /\ UNCHANGED <<engine, firefox_db, chrome_file, journal, locked, clock, heap, mrun, fn>>

\* _sync_bidirectional: "Reading Chrome bookmarks", the merge and the dry-run return
ReadChrome(ok) ==
    /\ call.pc = "read_chrome"
    /\ LET tree == read_bookmarks("chrome")
           failed == locked.chrome \/ ~ok \/ ~validate_bookmark_tree(tree)
           raises == merge_trees_raises(engine.merger, call.firefox_tree, tree)
           m == merge_trees(engine.merger, call.firefox_tree, tree)
           c == [call EXCEPT !.chrome_tree = tree, !.merged_tree = m.merged_tree]
       IN  /\ call' = IF failed THEN Raised(call, "CorruptedDataError")
                      ELSE IF raises
                      THEN Raised([call EXCEPT !.chrome_tree = tree], "ValueError")
                      ELSE IF call.dry_run THEN [c EXCEPT !.pc = "done", !.result = TRUE]
                      ELSE [c EXCEPT !.pc = "write_chrome"]
           /\ engine' = IF failed THEN engine
                        ELSE IF raises
                        THEN [engine EXCEPT !.merger =
                                 merge_trees_raised(@, call.firefox_tree, tree)]
                        ELSE [engine EXCEPT !.merger = m.merger]
           /\ hist' = [hist EXCEPT !.trace =
                          Append(@, Event("read", "chrome",
                                          IF locked.chrome \/ ~ok THEN "raise" ELSE "ok"))]
    /\ UNCHANGED <<firefox_db, chrome_file, journal, locked, clock, heap, mrun, fn>>

\* "Get previous Chrome bookmarks state" / "Get previous Firefox bookmarks
\* state": {} when the target cannot be read, else the hashes of the tree
\* read from the target
previous_state(who, failed) ==
    IF failed THEN <<>>
    ELSE get_all_bookmark_hashes(read_bookmarks(who))

\* _sync_incremental_*: the read of the target's previous state (a failure
\* leaves previous_hashes empty), detect_changes and the two early returns
ReadPrevious(ok) ==
    /\ call.pc = "previous"
    /\ LET who == target_of(call.pass)
           failed == locked[who] \/ ~ok
           previous_hashes == previous_state(who, failed)
           source_tree == IF who = "chrome" THEN call.firefox_tree ELSE call.chrome_tree
           changes == detect_changes(source_tree, previous_hashes)
           c1 == IF /\ changes.new_bookmarks = <<>>
                    /\ changes.modified_bookmarks = <<>>
                    /\ changes.deleted_urls = <<>>
                 THEN Returned(call, TRUE)
                 ELSE IF call.dry_run THEN Returned(call, TRUE)
                 ELSE [call EXCEPT !.pc = "write"]
       IN  /\ call' = c1
           /\ hist' = Recorded(c1, journal,
                               <<Event("read", who, IF failed THEN "raise" ELSE "ok")>>)
    /\ UNCHANGED <<engine, firefox_db, chrome_file, journal, locked, clock, heap, mrun, fn>>

\* the write of a one-way pass: write_bookmarks raises when the browser is
\* locked, returns False when the write fails (ok = FALSE, the profile left
\* as it was) and True otherwise; then "sync_time = datetime.now()"
WriteTarget(ok) ==
    /\ call.pc = "write"
    /\ LET who == target_of(call.pass)
           tree == IF who = "chrome" THEN call.firefox_tree ELSE call.chrome_tree
           c1 == IF locked[who]
                 THEN Raised(call, IF engine.sync_mode = "incremental"
                                   THEN "RuntimeError" ELSE "CorruptedDataError")
                 ELSE IF ~ok THEN Returned(call, FALSE)
                 ELSE [call EXCEPT !.pc = "metadata",
                                   !.todo = metadata_calls(<<who>>, tree, clock)]
           res == IF locked[who] THEN "raise" ELSE IF ok THEN "ok" ELSE "false"
       IN  /\ call' = c1
           /\ hist' = Recorded(c1, journal, <<Event("write", who, res)>>)
           /\ chrome_file' = IF who = "chrome" /\ res = "ok"
                             THEN chrome_write_bookmarks(tree) ELSE chrome_file
           /\ firefox_db' = IF who = "firefox" /\ res = "ok"
                            THEN firefox_write_bookmarks(firefox_db, tree) ELSE firefox_db
           /\ clock' = IF res = "ok" THEN clock + 1 ELSE clock
    /\ UNCHANGED <<engine, journal, locked, heap, mrun, fn>>

\* _sync_bidirectional: "Writing merged bookmarks to Chrome"
WriteChrome(ok) ==
    /\ call.pc = "write_chrome"
    /\ call' = IF locked.chrome THEN Raised(call, "CorruptedDataError")
               ELSE [call EXCEPT !.pc = "write_firefox", !.chrome_success = ok]
    /\ chrome_file' = IF ~locked.chrome /\ ok
                      THEN chrome_write_bookmarks(call.merged_tree) ELSE chrome_file
    /\ hist' = [hist EXCEPT !.trace =
                   Append(@, Event("write", "chrome",
                                   IF locked.chrome THEN "raise"
                                   ELSE IF ok THEN "ok" ELSE "false"))]
    /\ UNCHANGED <<engine, firefox_db, journal, locked, clock, heap, mrun, fn>>

\* _sync_bidirectional: "Writing merged bookmarks to Firefox" and the branch
\* on the two results
WriteFirefox(ok) ==
    /\ call.pc = "write_firefox"
    /\ LET c == [call EXCEPT !.firefox_success = ok]
           update == ~locked.firefox /\ both_succeeded(call.chrome_success, ok)
       IN  /\ call' = IF locked.firefox THEN Raised(call, "CorruptedDataError")
                      ELSE IF update
                      THEN [c EXCEPT !.pc = "metadata",
                                     !.todo = metadata_calls(<<"firefox", "chrome">>,
                                                             call.merged_tree, clock)]
                      ELSE [c EXCEPT !.pc = "done", !.result = FALSE]
           /\ clock' = IF update THEN clock + 1 ELSE clock
    /\ firefox_db' = IF ~locked.firefox /\ ok
                     THEN firefox_write_bookmarks(firefox_db, call.merged_tree)
                     ELSE firefox_db
    /\ hist' = [hist EXCEPT !.trace =
                   Append(@, Event("write", "firefox",
                                   IF locked.firefox THEN "raise"
                                   ELSE IF ok THEN "ok" ELSE "false"))]
    /\ UNCHANGED <<engine, chrome_file, journal, locked, heap, mrun, fn>>

\* one call of set_last_sync_time or set_bookmark_hash, _save_metadata
\* included; after the last one the pass returns True
UpdateMetadata ==
    /\ call.pc = "metadata"
    /\ LET m == Head(call.todo)
           metadata == IF m.op = "set_last_sync_time"
                       THEN set_last_sync_time(engine.metadata, m.source, m.sync_time)
                       ELSE set_bookmark_hash(engine.metadata, m.source, m.url, m.hash_value)
           c == [call EXCEPT !.todo = Tail(@)]
           c1 == IF c.todo = <<>> THEN Returned(c, TRUE) ELSE c
       IN  /\ engine' = [engine EXCEPT !.metadata = metadata]
           /\ journal' = metadata
           /\ call' = c1
           /\ hist' = Recorded(c1, metadata, <<>>)
    /\ UNCHANGED <<firefox_db, chrome_file, locked, clock, heap, mrun, fn>>

(***************************************************************************)
(* The environment: a browser is started or closed at any time             *)
(***************************************************************************)
BrowserOpens(b) ==
    /\ ~locked[b]
    /\ locked' = [locked EXCEPT ![b] = TRUE]
    /\ UNCHANGED <<engine, firefox_db, chrome_file, journal, clock, call, hist, heap, mrun, fn>>

BrowserCloses(b) ==
    /\ locked[b]
    /\ locked' = [locked EXCEPT ![b] = FALSE]
    /\ UNCHANGED <<engine, firefox_db, chrome_file, journal, clock, call, hist, heap, mrun, fn>>

Next ==
    \/ \E direction \in SyncDirection, dry_run \in BOOLEAN, access \in [Sources -> BOOLEAN] :
          Sync(direction, dry_run, access)
    \/ CheckLocked
    \/ Backup
    \/ \E ok \in BOOLEAN : ReadSource(ok)
    \/ \E ok \in BOOLEAN : ReadChrome(ok)
    \/ \E ok \in BOOLEAN : ReadPrevious(ok)
    \/ \E ok \in BOOLEAN : WriteTarget(ok)
    \/ \E ok \in BOOLEAN : WriteChrome(ok)
    \/ \E ok \in BOOLEAN : WriteFirefox(ok)
    \/ UpdateMetadata
    \/ \E b \in Sources : BrowserOpens(b)
    \/ \E b \in Sources : BrowserCloses(b)

Spec ==
    Init /\ [][Next]_vars


(***************************************************************************)
(* The merger on its own (SpecMerge): a caller builds two trees of         *)
(* objects, calls merge(tree1, tree2, "Firefox", "Chrome") on a merger     *)
(* and drops the trees.  mrun = [phase, tree1, tree2, merger, before,      *)
(* result]: before is the heap when merge was called.                      *)
(***************************************************************************)
\* children of the root of a tree given to the merger
MaxChildren ==
    2

\* the items a tree given as tree1 is built from
ItemsA ==
    { Bookmark(<<"A">>, <<"h", "t", "t", "p", ":", "/", "/", "x", "/", "a">>, 1, 1, NONE, <<>>),
      Bookmark(<<"E">>, <<"h", "t", "t", "p", ":", "/", "/", "y", "/", "b">>, 1, 3, NONE, <<>>),
      BookmarkFolder(<<"F">>, 1, 1,
                     <<Bookmark(<<"A">>, <<"h", "t", "t", "p", ":", "/", "/", "x", "/", "a">>, 1, 1, NONE, <<>>)>>) }

\* the items a tree given as tree2 is built from: the URL of an item of
\* ItemsA written differently, a URL that matches one only at the fuzzy
\* tier, and a URL of its own
ItemsB ==
    { Bookmark(<<"a">>, <<"H", "T", "T", "P", ":", "/", "/", "x", "/", "a", "/">>, 2, 2, NONE, <<>>),
      Bookmark(<<"B">>, <<"h", "t", "t", "p", "s", ":", "/", "/", "w", "w", "w", ".", "x", "/", "a">>, 2, 2, NONE, <<>>),
      Bookmark(<<"D">>, <<"h", "t", "t", "p", ":", "/", "/", "z", "/", "d">>, 2, 2, NONE, <<>>),
      BookmarkFolder(<<"F">>, 2, 2,
                     <<Bookmark(<<"B">>, <<"h", "t", "t", "p", ":", "/", "/", "x", "/", "a">>, 2, 2, NONE, <<>>)>>) }

ChildrenOf(items) ==
    UNION { [1..n -> items] : n \in 0..MaxChildren }

MergeInit ==
    /\ engine = [sync_mode |-> "merge", backup_before_sync |-> FALSE,
                 merger |-> BookmarkMerger("keep_all", TRUE, TRUE),
                 metadata |-> EmptyMetadata]
    /\ firefox_db = InitialFirefox
    /\ chrome_file = InitialChrome
    /\ journal = EmptyMetadata
    /\ locked = [s \in Sources |-> FALSE]
    /\ clock = 3
    /\ call = IdleCall
    /\ hist = NoHistory
    /\ heap = <<>>
    /\ mrun = NoMergeRun
    /\ fn = NoFn

\* the caller builds tree1 and tree2 and a merger
BuildTrees(children1, children2, strategy, enable_fuzzy_matching) ==
    /\ mrun.phase = "none"
    /\ LET t1 == load(<<>>, BookmarkFolder(FIREFOX_BOOKMARKS, 1, 1, children1))
           t2 == load(t1.h, BookmarkFolder(CHROME_BOOKMARKS, 2, 2, children2))
       IN  /\ heap' = t2.h
           /\ mrun' = [phase |-> "built", tree1 |-> t1.id, tree2 |-> t2.id,
                       merger |-> BookmarkMerger(strategy, enable_fuzzy_matching, TRUE),
                       before |-> t2.h, result |-> 0]
    /\ UNCHANGED <<engine, firefox_db, chrome_file, journal, locked, clock, call, hist, fn>>

\* merger.merge(tree1, tree2, "Firefox", "Chrome")
Merge ==
    /\ mrun.phase = "built"
    /\ LET m == merge(heap, mrun.merger, mrun.tree1, mrun.tree2, FIREFOX, CHROME)
       IN  /\ heap' = m.h
           /\ mrun' = [mrun EXCEPT !.phase = "merged", !.merger = m.merger,
                                   !.result = m.result]
    /\ UNCHANGED <<engine, firefox_db, chrome_file, journal, locked, clock, call, hist, fn>>

\* the caller drops the trees and the merger
Discard ==
    /\ mrun.phase = "merged"
    /\ heap' = <<>>
    /\ mrun' = NoMergeRun
    /\ UNCHANGED <<engine, firefox_db, chrome_file, journal, locked, clock, call, hist, fn>>

MergeNext ==
    \/ \E children1 \in ChildrenOf(ItemsA), children2 \in ChildrenOf(ItemsB),
          strategy \in MergeStrategy, enable_fuzzy_matching \in BOOLEAN :
          BuildTrees(children1, children2, strategy, enable_fuzzy_matching)
    \/ Merge
    \/ Discard

SpecMerge ==
    MergeInit /\ [][MergeNext]_vars


(***************************************************************************)
(* Properties of sync().  hist.trace holds the backup, read_bookmarks and  *)
(* write_bookmarks calls of the current sync() call, in call order.        *)
(***************************************************************************)
IsCall(i, op, who) ==
    hist.trace[i].op = op /\ hist.trace[i].who = who

IsOp(i, op) ==
    hist.trace[i].op = op

\* the adapters a pass writes to
PassTargets(pass) ==
    IF pass = "merge" THEN {"firefox", "chrome"} ELSE {target_of(pass)}

\* write_bookmarks of that adapter returned True in that pass
WroteOk(who, pass) ==
    \E i \in 1..Len(hist.trace) :
        hist.trace[i] = [op |-> "write", who |-> who, pass |-> pass, res |-> "ok"]

\* C1: during and after a sync() call with dry_run = true, whatever the
\* direction and the mode, no backup has been invoked, write_bookmarks has been
\* called on neither adapter, and the journal is what it was when the call began.
C1_DryRunTouchesNothing ==
    (hist.runs > 0 /\ call.dry_run) =>
        /\ \A i \in 1..Len(hist.trace) : ~IsOp(i, "backup") /\ ~IsOp(i, "write")
        /\ journal = hist.journal_at_call

\* a dry-run merge of the two profiles has returned True, backups being enabled
C1_Witness ==
    /\ call.pc = "done" /\ call.dry_run /\ call.result
    /\ call.pass = "merge" /\ engine.backup_before_sync
    /\ Len(hist.trace) = 2

\* C2: in every pass of every sync() call the journal differs from what it was
\* when the pass began only if write_bookmarks of every target of that pass has
\* returned True in that pass; so after a write that returned False or raised,
\* and after a failure before the write, the journal is as before the pass.
C2_JournalOnlyAfterWrite ==
    (hist.runs > 0 /\ journal # hist.journal0) =>
        \A who \in PassTargets(call.pass) : WroteOk(who, call.pass)

\* a merge pass has written both targets and updated the journal
C2_Witness ==
    /\ call.pc = "done" /\ call.pass = "merge" /\ call.result
    /\ journal # hist.journal0
    /\ WroteOk("firefox", "merge") /\ WroteOk("chrome", "merge")

\* C3: with backup_before_sync enabled and dry_run false, every write_bookmarks
\* call of a sync() call comes after a backup_firefox and a backup_chrome call
\* of the same sync() call.
C3_BackupBeforeFirstWrite ==
    (hist.runs > 0 /\ engine.backup_before_sync /\ ~call.dry_run) =>
        \A i \in 1..Len(hist.trace) :
            IsOp(i, "write") =>
                \A who \in Sources : \E j \in 1..(i - 1) : IsCall(j, "backup", who)

\* a write has been made with backups enabled
C3_Witness ==
    /\ engine.backup_before_sync
    /\ \E i \in 1..Len(hist.trace) : IsOp(i, "write") /\ hist.trace[i].res = "ok"

\* C4 as stated: within one sync() call no read_bookmarks call comes after a
\* write_bookmarks call.
C4_AllReadsPrecedeAllWrites ==
    \A i, j \in 1..Len(hist.trace) :
        ~(i < j /\ IsOp(i, "write") /\ IsOp(j, "read"))

\* C4, amended: within one pass no read_bookmarks call comes after a
\* write_bookmarks call; a read of one sync() call follows a write of that call
\* only in a Bidirectional call in Full or Incremental mode, where the reads of
\* the second pass (Chrome->Firefox) follow the write of the first
\* (Firefox->Chrome).
C4_ReadsPrecedeWritesInPass ==
    \A i, j \in 1..Len(hist.trace) :
        (i < j /\ IsOp(i, "write") /\ IsOp(j, "read")) =>
            /\ call.direction = "bidirectional"
            /\ engine.sync_mode # "merge"
            /\ hist.trace[i].pass = "firefox_to_chrome"
            /\ hist.trace[j].pass = "chrome_to_firefox"

\* the second pass reads Chrome after the first pass wrote it
C4_Witness ==
    \E i, j \in 1..Len(hist.trace) :
        /\ i < j
        /\ hist.trace[i] = [op |-> "write", who |-> "chrome",
                            pass |-> "firefox_to_chrome", res |-> "ok"]
        /\ hist.trace[j] = [op |-> "read", who |-> "chrome",
                            pass |-> "chrome_to_firefox", res |-> "ok"]

\* C5: if an adapter answers is_locked() = true when sync() starts, then
\* whatever the direction and the mode the call has returned False and has made
\* no backup, read_bookmarks or write_bookmarks call against that browser.
C5_LockedAtStartAborts ==
    \A b \in Sources :
        (hist.runs > 0 /\ hist.locked_at_start[b]) =>
            /\ call.pc = "done"
            /\ call.result = FALSE
            /\ \A i \in 1..Len(hist.trace) : hist.trace[i].who # b

\* sync() was called with Chrome running and Firefox closed
C5_Witness ==
    /\ hist.runs > 0
    /\ hist.locked_at_start.chrome /\ ~hist.locked_at_start.firefox
    /\ call.pc = "done" /\ call.error = "BrowserLockedError"

\* C8: a Bidirectional call in Full or Incremental mode that ends with a
\* CorruptedDataError has attempted the second direction (Chrome->Firefox).
C8_SecondDirectionAttempted ==
    (/\ call.pc = "done"
     /\ call.direction = "bidirectional"
     /\ engine.sync_mode # "merge"
     /\ call.error = "CorruptedDataError") =>
        \E i \in 1..Len(hist.passes) : hist.passes[i] = "chrome_to_firefox"

\* the first direction raised CorruptedDataError and sync() returned False
\* without starting the second
C8_FirstFailureEndsCall ==
    /\ call.pc = "done"
    /\ call.direction = "bidirectional"
    /\ engine.sync_mode = "full"
    /\ call.error = "CorruptedDataError"
    /\ ~call.result
    /\ hist.passes = <<"firefox_to_chrome">>

\* C9: a Bidirectional Merge call that has called write_bookmarks on Chrome has
\* called write_bookmarks on Firefox by the time it returns, whatever the
\* Chrome call did.
C9_FirefoxWriteAttempted ==
    (/\ call.pc = "done"
     /\ call.pass = "merge"
     /\ \E i \in 1..Len(hist.trace) : IsCall(i, "write", "chrome")) =>
        \E j \in 1..Len(hist.trace) : IsCall(j, "write", "firefox")

\* the write to Chrome raised and sync() returned without writing to Firefox
C9_ChromeRaiseSkipsFirefox ==
    /\ call.pc = "done"
    /\ call.pass = "merge"
    /\ \E i \in 1..Len(hist.trace) :
          hist.trace[i] = [op |-> "write", who |-> "chrome", pass |-> "merge", res |-> "raise"]
    /\ \A j \in 1..Len(hist.trace) : ~IsCall(j, "write", "firefox")

\* exactly one of the two writes of a finished merge pass returned True
ExactlyOneWriteSucceeded ==
    /\ call.pc = "done"
    /\ call.pass = "merge"
    /\ WroteOk("chrome", "merge") # WroteOk("firefox", "merge")

\* C10: when exactly one of the two writes of a Bidirectional Merge call
\* succeeded, what the caller gets (the return value and the journal) is not
\* what it gets when both writes failed: False and the journal as it was.
C10_PartialSuccessDistinct ==
    ExactlyOneWriteSucceeded =>
        ~(call.result = FALSE /\ journal = hist.journal_at_call)

\* only the write to Firefox succeeded; sync() returned False and the journal
\* is as it was when the call began
C10_PartialLooksLikeFailure ==
    /\ ExactlyOneWriteSucceeded
    /\ WroteOk("firefox", "merge")
    /\ call.result = FALSE
    /\ journal = hist.journal_at_call


(***************************************************************************)
(* Properties of merge(), on SpecMerge                                     *)
(***************************************************************************)
\* the records of the two inputs as they were when merge was called, and of
\* the output
RecordsA ==
    records(deref(mrun.before, mrun.tree1))

RecordsB ==
    records(deref(mrun.before, mrun.tree2))

RecordsOut ==
    records(deref(heap, mrun.result))

\* the record has the normalized URL of a record of tree A
ExactOverlap(b) ==
    \E i \in 1..Len(RecordsA) : normalize_url(RecordsA[i].url) = normalize_url(b.url)

\* the record matches a record of tree A at the fuzzy tier
FuzzyOverlap(b) ==
    /\ mrun.merger.enable_fuzzy_matching
    /\ \E i \in 1..Len(RecordsA) : fuzzy_equal(b.url, RecordsA[i].url)

KeepAllDone ==
    mrun.phase = "merged" /\ mrun.merger.strategy = "keep_all"

\* the output holds the records of A as they were, then the records of B,
\* those of B that satisfy Renamed with " (Chrome)" appended to the title
KeepAllOutput(Renamed(_)) ==
    /\ Len(RecordsOut) = Len(RecordsA) + Len(RecordsB)
    /\ \A i \in 1..Len(RecordsA) : RecordsOut[i] = RecordsA[i]
    /\ \A j \in 1..Len(RecordsB) :
          RecordsOut[Len(RecordsA) + j] =
              IF Renamed(RecordsB[j])
              THEN [RecordsB[j] EXCEPT !.title = renamed_title(@, CHROME)]
              ELSE RecordsB[j]

\* C6 as stated: a keep_all merge of trees with m and n records yields m + n
\* records, in which exactly the records of B whose normalized URL is that of
\* a record of A carry the suffix " (name_b)", every other record unchanged.
C6_ExactOverlapsRenamed ==
    KeepAllDone => KeepAllOutput(ExactOverlap)

\* C6, amended: a keep_all merge of trees with m and n records yields m + n
\* records, in which exactly the records of B that match a record of A at some
\* tier (the same normalized URL, or, with fuzzy matching enabled, the same
\* host and path) carry the suffix " (name_b)", every other record unchanged.
C6_MatchedRecordsRenamed ==
    KeepAllDone =>
        KeepAllOutput(LAMBDA b : ExactOverlap(b) \/ FuzzyOverlap(b))

\* a keep_all merge has renamed a record of B that matches A at the fuzzy tier
\* only, and one that has the normalized URL of a record of A
C6_Witness ==
    /\ KeepAllDone
    /\ \E j \in 1..Len(RecordsB) :
          /\ FuzzyOverlap(RecordsB[j]) /\ ~ExactOverlap(RecordsB[j])
          /\ RecordsOut[Len(RecordsA) + j].title = renamed_title(RecordsB[j].title, CHROME)
    /\ \E j \in 1..Len(RecordsB) :
          /\ ExactOverlap(RecordsB[j])
          /\ RecordsOut[Len(RecordsA) + j].title = renamed_title(RecordsB[j].title, CHROME)

\* C7: after merge(tree_a, tree_b), whatever the strategy, every object of the
\* two input trees is as it was before the call (so both trees have the same
\* structure, order and record fields), and no folder or record of the output
\* is an object of an input.
C7_InputsUntouchedOutputFresh ==
    mrun.phase = "merged" =>
        /\ \A id \in 1..Len(mrun.before) : heap[id] = mrun.before[id]
        /\ reachable(heap, mrun.result)
               \cap (reachable(mrun.before, mrun.tree1) \cup reachable(mrun.before, mrun.tree2))
           = {}

\* a smart merge of two trees that both hold a folder has returned
C7_Witness ==
    /\ mrun.phase = "merged"
    /\ mrun.merger.strategy = "smart"
    /\ \E id \in reachable(mrun.before, mrun.tree1) \ {mrun.tree1} : isFolder(mrun.before, id)
    /\ \E id \in reachable(mrun.before, mrun.tree2) \ {mrun.tree2} : isFolder(mrun.before, id)
    /\ Len(RecordsOut) >= 2


\* a step of the running sync() call
CallStep ==
    \/ CheckLocked
    \/ Backup
    \/ \E ok \in BOOLEAN : ReadSource(ok)
    \/ \E ok \in BOOLEAN : ReadChrome(ok)
    \/ \E ok \in BOOLEAN : ReadPrevious(ok)
    \/ \E ok \in BOOLEAN : WriteTarget(ok)
    \/ \E ok \in BOOLEAN : WriteChrome(ok)
    \/ \E ok \in BOOLEAN : WriteFirefox(ok)
    \/ UpdateMetadata

RECURSIVE JournalAfter(_, _)
JournalAfter(metadata, todo) ==
    IF todo = <<>> THEN metadata
    ELSE JournalAfter(IF Head(todo).op = "set_last_sync_time"
                      THEN set_last_sync_time(metadata, Head(todo).source, Head(todo).sync_time)
                      ELSE set_bookmark_hash(metadata, Head(todo).source, Head(todo).url,
                                             Head(todo).hash_value),
                      Tail(todo))

\* C12: at every point of the metadata update that follows a successful write
\* (a crash there leaves the journal file as it is at that point), the
\* persisted journal is the journal as it was before the run (or before the
\* pass) or the fully updated journal, with all last_sync values and the hash
\* of every URL of the written tree.
C12_JournalOldOrComplete ==
    call.pc = "metadata" =>
        \/ journal = hist.journal_at_call
        \/ journal = hist.journal0
        \/ journal = JournalAfter(journal, call.todo)

\* in the middle of the metadata update: both last_sync values are saved, the
\* hashes of the written tree are not all saved yet
C12_JournalInBetween ==
    /\ call.pc = "metadata"
    /\ call.todo # <<>>
    /\ Head(call.todo).op = "set_bookmark_hash"
    /\ journal.chrome.last_sync # hist.journal0.chrome.last_sync
    /\ journal # JournalAfter(journal, call.todo)


PriorityDone ==
    mrun.phase = "merged" /\ mrun.merger.strategy \in {"firefox_priority", "chrome_priority"}

\* the primary and the secondary tree of a priority merge, as they were when
\* merge was called
PrimaryTree ==
    deref(mrun.before, IF mrun.merger.strategy = "firefox_priority" THEN mrun.tree1 ELSE mrun.tree2)

SecondaryTree ==
    deref(mrun.before, IF mrun.merger.strategy = "firefox_priority" THEN mrun.tree2 ELSE mrun.tree1)

NormalizedUrls(tree) ==
    { normalize_url(records(tree)[i].url) : i \in 1..Len(records(tree)) }

\* C13: when every record of the secondary tree B, at top level or inside
\* folders, has a normalized URL that occurs in the primary tree A, the
\* children of the output of a priority merge are the children of A: the same
\* folders and records in the same order, nothing of B added.
C13_SubsetYieldsPrimary ==
    (PriorityDone /\ NormalizedUrls(SecondaryTree) \subseteq NormalizedUrls(PrimaryTree)) =>
        deref(heap, mrun.result).children = PrimaryTree.children

\* a priority merge has output a top-level record of B whose normalized URL
\* occurs in A, after the children of A
C13_TopLevelDuplicateKept ==
    /\ PriorityDone
    /\ NormalizedUrls(SecondaryTree) \subseteq NormalizedUrls(PrimaryTree)
    /\ SecondaryTree.children # <<>>
    /\ SecondaryTree.children[1].kind = "bookmark"
    /\ Len(deref(heap, mrun.result).children) > Len(PrimaryTree.children)
    /\ deref(heap, mrun.result).children[Len(PrimaryTree.children) + 1]
          = SecondaryTree.children[1]


\* the normalized URLs of a sequence of records
UrlSet(rs) ==
    { normalize_url(rs[i].url) : i \in 1..Len(rs) }

\* the two trees given to merge share no normalized URL
NoSharedUrl ==
    UrlSet(RecordsA) \cap UrlSet(RecordsB) = {}

\* C14: when the trees A and B given to merge share no normalized URL, the
\* set of normalized URLs of the records of the output is the union of the
\* sets of A and of B, for keep_all, timestamp, smart, firefox_priority and
\* chrome_priority alike.
C14_DisjointYieldsUnion ==
    (mrun.phase = "merged" /\ NoSharedUrl) =>
        UrlSet(RecordsOut) = UrlSet(RecordsA) \cup UrlSet(RecordsB)

\* a smart merge of two trees that share no normalized URL, A with a record
\* inside a folder and one at top level, B with two records, has returned
C14_Witness ==
    /\ mrun.phase = "merged"
    /\ mrun.merger.strategy = "smart"
    /\ NoSharedUrl
    /\ Len(RecordsA) = 2 /\ Len(RecordsB) = 2
    /\ \E id \in reachable(mrun.before, mrun.tree1) \ {mrun.tree1} : isFolder(mrun.before, id)
    /\ Cardinality(UrlSet(RecordsOut)) = 4



\* a Bidirectional call in Full or Incremental mode that was dispatched (the
\* access check passed) and has returned
TwoPassCallDone ==
    /\ call.pc = "done"
    /\ call.direction = "bidirectional"
    /\ engine.sync_mode # "merge"
    /\ hist.passes # <<>>

\* C15: a Bidirectional call in Full or Incremental mode runs the
\* Firefox->Chrome pass and then the Chrome->Firefox pass, never invokes the
\* merger, and returns True only when the first pass returned True and no
\* pass ended in an exception.
C15_BothPassesRun ==
    TwoPassCallDone =>
        /\ hist.passes = <<"firefox_to_chrome", "chrome_to_firefox">>
        /\ engine.merger = BookmarkMerger("keep_all", TRUE, TRUE)
        /\ call.result => (call.success1 /\ call.error = NONE)

\* an Incremental Bidirectional call whose first pass wrote to Chrome while
\* Chrome was running: the RuntimeError ended the call, no second pass
C15_FirstPassOnly ==
    /\ TwoPassCallDone
    /\ engine.sync_mode = "incremental"
    /\ call.error = "RuntimeError"
    /\ ~call.result
    /\ hist.passes = <<"firefox_to_chrome">>
    /\ hist.trace[Len(hist.trace)] =
           [op |-> "write", who |-> "chrome", pass |-> "firefox_to_chrome", res |-> "raise"]



\* a pass of the current call that is over: an earlier pass of a two-pass
\* call, or the last pass of a call that returned without an exception
PassOver(k) ==
    k < Len(hist.passes) \/ (call.pc = "done" /\ call.error = NONE)

\* the pass went on to its diff: its source was read and validated and the
\* previous state of its target was asked for
PassDiffed(pass) ==
    \E i \in 1..Len(hist.trace) :
        /\ IsCall(i, "read", target_of(pass))
        /\ hist.trace[i].pass = pass

\* the read of the target's previous state failed in that pass
PreviousUnread(pass) ==
    \E i \in 1..Len(hist.trace) :
        hist.trace[i] = [op |-> "read", who |-> target_of(pass), pass |-> pass, res |-> "raise"]

\* write_bookmarks was called on the target in that pass
PassWrote(pass) ==
    \E i \in 1..Len(hist.trace) :
        /\ IsCall(i, "write", target_of(pass))
        /\ hist.trace[i].pass = pass

\* the source tree the pass read
SourceTree(pass) ==
    IF pass = "firefox_to_chrome" THEN call.firefox_tree ELSE call.chrome_tree

\* the records of the source tree and of the target as it is now have the
\* same lower-cased URLs with the same hashes
SameSnapshot(pass) ==
    Range(get_all_bookmark_hashes(SourceTree(pass)))
        = Range(get_all_bookmark_hashes(read_bookmarks(target_of(pass))))

\* C16 as stated: in Incremental mode every one-way pass with dry_run = false
\* whose source read and validation succeeded has called write_bookmarks on
\* its target by the time it is over.
C16_EveryPassWrites ==
    (engine.sync_mode = "incremental" /\ ~call.dry_run) =>
        \A k \in 1..Len(hist.passes) :
            (PassOver(k) /\ PassDiffed(hist.passes[k])) => PassWrote(hist.passes[k])

\* C16, amended: in Incremental mode a one-way pass with dry_run = false whose
\* source read and validation succeeded ends without a write only when the
\* diff of the source tree against the target's state is empty (the same
\* URLs with the same hashes; against an unreadable target, a source tree
\* without records); every other such pass calls write_bookmarks with the
\* full source tree, and when that returns True the target holds every
\* item of the source tree (the Chrome file is the source tree written out;
\* the Firefox database has a row for every child of the source root, with
\* all that is below it).
C16_WritesFullTreeOnDiff ==
    (engine.sync_mode = "incremental" /\ ~call.dry_run) =>
        /\ \A k \in 1..Len(hist.passes) :
              (PassOver(k) /\ PassDiffed(hist.passes[k]) /\ ~PassWrote(hist.passes[k])) =>
                  IF PreviousUnread(hist.passes[k])
                  THEN records(SourceTree(hist.passes[k])) = <<>>
                  ELSE SameSnapshot(hist.passes[k])
        /\ (call.pc = "metadata" /\ call.pass = "firefox_to_chrome") =>
              chrome_file = chrome_write_bookmarks(call.firefox_tree)
        /\ (call.pc = "metadata" /\ call.pass = "chrome_to_firefox") =>
              \A j \in 1..Len(call.chrome_tree.children) :
                  \E root \in DOMAIN firefox_db.roots :
                      \E r \in 1..Len(firefox_db.roots[root]) :
                          firefox_db.roots[root][r].item
                              = write_bookmark_item(call.chrome_tree.children[j])

\* an Incremental Firefox->Chrome pass found the trees different and has
\* written the source tree, of several records, to Chrome
C16_Witness ==
    /\ engine.sync_mode = "incremental" /\ ~call.dry_run
    /\ call.pc = "metadata" /\ call.pass = "firefox_to_chrome"
    /\ WroteOk("chrome", "firefox_to_chrome")
    /\ ~PreviousUnread("firefox_to_chrome")
    /\ Len(records(call.firefox_tree)) >= 2
    /\ Len(records(read_bookmarks("chrome"))) = Len(records(call.firefox_tree))



\* the engine's merger as it is constructed
FreshMerger ==
    BookmarkMerger(engine.merger.strategy, engine.merger.enable_fuzzy_matching,
                   engine.merger.enable_name_matching)

\* merge() has been called in the current sync() call
MergeCalled ==
    /\ call.pass = "merge"
    /\ \E i \in 1..Len(hist.trace) :
          /\ hist.trace[i] = [op |-> "read", who |-> "chrome", pass |-> "merge", res |-> "ok"]
          /\ i < Len(hist.trace) \/ call.error # "CorruptedDataError"

\* C17: after each merge() call on the engine's merger, whatever earlier
\* calls left there, get_conflicts() and get_duplicate_matches() hold exactly
\* the conflicts and matches of that call: those a newly constructed merger
\* holds after the same call (up to the point where it raised, if it did).
C17_AccumulatorsOfLastCall ==
    MergeCalled =>
        LET own == IF merge_trees_raises(FreshMerger, call.firefox_tree, call.chrome_tree)
                   THEN merge_trees_raised(FreshMerger, call.firefox_tree, call.chrome_tree)
                   ELSE merge_trees(FreshMerger, call.firefox_tree, call.chrome_tree).merger
        IN  /\ get_conflicts(engine.merger) = get_conflicts(own)
            /\ get_duplicate_matches(engine.merger) = get_duplicate_matches(own)

\* the second sync() call on an engine has merged; its first call merged the
\* profiles as they were at first, which left matches, and wrote the result
C17_Witness ==
    /\ hist.runs = 2
    /\ MergeCalled
    /\ hist.journal_at_call # EmptyMetadata
    /\ get_duplicate_matches(
           merge_trees(FreshMerger, firefox_read_bookmarks(InitialFirefox, 3),
                       chrome_read_bookmarks(InitialChrome, 3)).merger) # <<>>
    /\ get_duplicate_matches(engine.merger) # <<>>



\* the records of tree A in flattened order, as objects
FlatA ==
    get_all_bookmarks(mrun.before, mrun.tree1)

\* the tier under which a match was recorded holds between the two records
SatisfiesTier(a, b, tier) ==
    CASE tier = "url" -> url_key(a) = url_key(b)
      [] tier = "name+url" -> name_url_key(a) = name_url_key(b)
      [] OTHER -> fuzzy_equal(b.url, a.url)

\* C18: in every match (b1, b2, tier) a keep_all merge has recorded, b1 is
\* the first record of A's flattened list that satisfies that tier with b2.
C18_FirstOfTierRecorded ==
    KeepAllDone =>
        \A m \in 1..Len(mrun.merger.duplicate_matches) :
            LET match == mrun.merger.duplicate_matches[m]
            IN  \E i \in 1..Len(FlatA) :
                    /\ FlatA[i] = match[1]
                    /\ \A j \in 1..(i - 1) :
                          ~SatisfiesTier(heap[FlatA[j]], heap[match[2]], match[3])

\* a keep_all merge has recorded an Exact match with the second of two
\* records of A that have the normalized URL of the B record
C18_LaterRecordMatched ==
    /\ KeepAllDone
    /\ Len(FlatA) = 2
    /\ Len(mrun.merger.duplicate_matches) = 1
    /\ mrun.merger.duplicate_matches[1][3] = "url"
    /\ mrun.merger.duplicate_matches[1][1] = FlatA[2]
    /\ SatisfiesTier(heap[FlatA[1]], heap[mrun.merger.duplicate_matches[1][2]], "url")



(***************************************************************************)
(* The change detector on its own (SpecDetect): a caller takes the         *)
(* snapshot of a tree with get_all_bookmark_hashes and hands the tree and  *)
(* the snapshot to detect_changes.  fn = [op, tree, hashes, changes].      *)
(***************************************************************************)
\* children of the root of a tree given to the detector
MaxRecords ==
    3

\* the items such a tree is built from: a record, one whose URL differs from
\* it in letter case only, one with its URL and another title and date, a
\* record with a URL of its own, and a folder holding a copy of the first
ItemsT ==
    { Bookmark(<<"A">>, <<"h", "t", "t", "p", ":", "/", "/", "x", "/", "a">>, 1, 1, NONE, <<>>),
      Bookmark(<<"A">>, <<"h", "t", "t", "p", ":", "/", "/", "X", "/", "a">>, 1, 1, NONE, <<>>),
      Bookmark(<<"B">>, <<"h", "t", "t", "p", ":", "/", "/", "x", "/", "a">>, 1, 2, NONE, <<>>),
      Bookmark(<<"E">>, <<"h", "t", "t", "p", ":", "/", "/", "y", "/", "b">>, 1, 1, NONE, <<>>),
      BookmarkFolder(<<"F">>, 1, 1, <<Bookmark(<<"A">>, <<"h", "t", "t", "p", ":", "/", "/", "x", "/", "a">>, 1, 1, NONE, <<>>)>>) }

DetectTrees ==
    { BookmarkFolder(FIREFOX_BOOKMARKS, 1, 1, children) :
        children \in UNION { [1..n -> ItemsT] : n \in 0..MaxRecords } }

\* the engine and the merger take no part
Aside ==
    /\ engine = [sync_mode |-> "incremental", backup_before_sync |-> FALSE,
                 merger |-> BookmarkMerger("keep_all", TRUE, TRUE),
                 metadata |-> EmptyMetadata]
    /\ firefox_db = InitialFirefox
    /\ chrome_file = InitialChrome
    /\ journal = EmptyMetadata
    /\ locked = [s \in Sources |-> FALSE]
    /\ clock = 3
    /\ call = IdleCall
    /\ hist = NoHistory
    /\ heap = <<>>
    /\ mrun = NoMergeRun

DetectInit ==
    /\ Aside
    /\ fn \in { [op |-> "tree", tree |-> tree] : tree \in DetectTrees }

\* hashes = change_detector.get_all_bookmark_hashes(tree)
TakeSnapshot ==
    /\ fn.op = "tree"
    /\ fn' = [op |-> "hashes", tree |-> fn.tree, hashes |-> get_all_bookmark_hashes(fn.tree)]
    /\ UNCHANGED <<engine, firefox_db, chrome_file, journal, locked, clock, call, hist, heap, mrun>>

\* new, modified, deleted = change_detector.detect_changes(tree, hashes)
DetectChanges ==
    /\ fn.op = "hashes"
    /\ fn' = [op |-> "changes", tree |-> fn.tree, hashes |-> fn.hashes,
              changes |-> detect_changes(fn.tree, fn.hashes)]
    /\ UNCHANGED <<engine, firefox_db, chrome_file, journal, locked, clock, call, hist, heap, mrun>>

DetectNext ==
    \/ TakeSnapshot
    \/ DetectChanges

SpecDetect ==
    DetectInit /\ [][DetectNext]_vars

\* C19: detect_changes(T, get_all_bookmark_hashes(T)) returns no new record,
\* no modified record and no deleted URL, whatever the tree T, trees with
\* several records of the same URL up to letter case included.
C19_OwnSnapshotNoChanges ==
    fn.op = "changes" =>
        /\ fn.changes.new_bookmarks = <<>>
        /\ fn.changes.modified_bookmarks = <<>>
        /\ fn.changes.deleted_urls = <<>>

\* a tree of two records with the same URL and different titles, diffed
\* against its own snapshot: the first record is reported as modified
C19_FirstOfPairModified ==
    /\ fn.op = "changes"
    /\ Len(records(fn.tree)) = 2
    /\ records(fn.tree)[1].url = records(fn.tree)[2].url
    /\ records(fn.tree)[1].title # records(fn.tree)[2].title
    /\ Len(fn.hashes) = 1
    /\ fn.changes.modified_bookmarks = <<records(fn.tree)[1]>>



(***************************************************************************)
(* URL normalization on its own (SpecNormalize): a caller normalizes a     *)
(* URL and then normalizes the result.  fn = [op, url, once, twice].       *)
(***************************************************************************)
\* the URLs given to _normalize_url: a scheme in either case, a host with or
\* without a port (the default one, another one, one that is no number), and
\* what follows the host
UrlSchemes ==
    { <<"h", "t", "t", "p", ":", "/", "/">>, <<"H", "T", "T", "P", ":", "/", "/">>, <<"h", "t", "t", "p", "s", ":", "/", "/">> }

UrlHosts ==
    { <<"x">>, <<"x", ":", "8", "0">>, <<"w", "w", "w", ".", "x", ":", "4", "4", "3">>, <<"x", ":", "a">> }

UrlTails ==
    { <<>>, <<"/">>, <<"/", "a">>, <<"/", "a", "/">>, <<"/", "a", "/", "/">>, <<"/", "a", "/", "#", "f">>, <<"/", "a", "#", "f", "/">>, <<"/", "a", "/", " ", "/">> }

NormalizeUrls ==
    { scheme \o host \o tail : scheme \in UrlSchemes, host \in UrlHosts, tail \in UrlTails }

NormalizeInit ==
    /\ Aside
    /\ fn \in { [op |-> "url", url |-> url] : url \in NormalizeUrls }

\* once = self._normalize_url(url), when it returns
Normalize ==
    /\ fn.op = "url"
    /\ ~normalize_raises(fn.url)
    /\ fn' = [op |-> "once", url |-> fn.url, once |-> normalize_url(fn.url)]
    /\ UNCHANGED <<engine, firefox_db, chrome_file, journal, locked, clock, call, hist, heap, mrun>>

\* twice = self._normalize_url(once), when it returns
NormalizeAgain ==
    /\ fn.op = "once"
    /\ ~normalize_raises(fn.once)
    /\ fn' = [op |-> "twice", url |-> fn.url, once |-> fn.once,
              twice |-> normalize_url(fn.once)]
    /\ UNCHANGED <<engine, firefox_db, chrome_file, journal, locked, clock, call, hist, heap, mrun>>

NormalizeNext ==
    \/ Normalize
    \/ NormalizeAgain

SpecNormalize ==
    NormalizeInit /\ [][NormalizeNext]_vars

\* C20: URL normalization is idempotent: normalize(normalize(u)) =
\* normalize(u) for every URL u that normalize accepts.
C20_NormalizeIdempotent ==
    fn.op = "twice" => fn.twice = fn.once

\* a URL that ends in two slashes: the first normalization removes one, the
\* second the other
C20_SecondSlashRemovedLater ==
    /\ fn.op = "twice"
    /\ fn.url = <<"h", "t", "t", "p", ":", "/", "/", "x", "/", "a", "/", "/">>
    /\ fn.once = <<"h", "t", "t", "p", ":", "/", "/", "x", "/", "a", "/">>
    /\ fn.twice = <<"h", "t", "t", "p", ":", "/", "/", "x", "/", "a">>



(***************************************************************************)
(* The merger on trees with empty and nested folders and with records of   *)
(* one normalized URL (SpecMergeEdge): the steps of SpecMerge on other     *)
(* trees.                                                                  *)
(***************************************************************************)
\* the items of both trees: a record, one with its normalized URL written
\* differently and its date_modified, a newer one with its URL, a folder
\* that holds a folder that holds the first record, and a folder without
\* children
EdgeItems ==
    { Bookmark(<<"A">>, <<"h", "t", "t", "p", ":", "/", "/", "x", "/", "a">>, 1, 1, NONE, <<>>),
      Bookmark(<<"a">>, <<"H", "T", "T", "P", ":", "/", "/", "x", "/", "a", "/">>, 2, 1, NONE, <<>>),
      Bookmark(<<"N">>, <<"h", "t", "t", "p", ":", "/", "/", "x", "/", "a">>, 1, 2, NONE, <<>>),
      BookmarkFolder(<<"F">>, 1, 1,
                     <<BookmarkFolder(<<"G">>, 1, 1,
                                      <<Bookmark(<<"A">>, <<"h", "t", "t", "p", ":", "/", "/", "x", "/", "a">>, 1, 1, NONE, <<>>)>>)>>),
      BookmarkFolder(<<"G">>, 1, 1, <<>>) }

EdgeChildren ==
    UNION { [1..n -> EdgeItems] : n \in 0..MaxChildren }

EdgeNext ==
    \/ \E children1 \in EdgeChildren, children2 \in EdgeChildren,
          strategy \in MergeStrategy, enable_fuzzy_matching \in BOOLEAN :
          BuildTrees(children1, children2, strategy, enable_fuzzy_matching)
    \/ Merge
    \/ Discard

SpecMergeEdge ==
    MergeInit /\ [][EdgeNext]_vars

\* the two trees given to merge, as they were when it was called, and the
\* output
TreeA ==
    deref(mrun.before, mrun.tree1)

TreeB ==
    deref(mrun.before, mrun.tree2)

TreeOut ==
    deref(heap, mrun.result)

\* merge was called with an empty tree on one side at least
OneTreeEmpty ==
    mrun.phase = "merged" /\ (TreeA.children = <<>> \/ TreeB.children = <<>>)

\* the tree on the other side
OtherTree ==
    IF TreeA.children = <<>> THEN TreeB ELSE TreeA

\* the other tree is the secondary tree of a priority merge
OtherIsSecondary ==
    \/ mrun.merger.strategy = "firefox_priority" /\ TreeA.children = <<>>
    \/ mrun.merger.strategy = "chrome_priority" /\ TreeA.children # <<>>

WithChildren(kids) ==
    SelectSeq(kids, LAMBDA c : c.kind = "bookmark" \/ c.children # <<>>)

SmartDone ==
    mrun.phase = "merged" /\ mrun.merger.strategy = "smart"

\* the records directly below a folder
LooseRecords(folder) ==
    SelectSeq(folder.children, LAMBDA c : c.kind = "bookmark")

\* no two of the records have the same normalized URL
OnePerUrl(rs) ==
    \A i \in 1..Len(rs) : \A j \in (i + 1)..Len(rs) :
        normalize_url(rs[i].url) # normalize_url(rs[j].url)

\* C22: in the output of a smart merge the loose records of the root, and the
\* records of every folder, hold at most one record per normalized URL, and
\* the first record of the walk (tree A, then tree B) is among the records
\* kept.
C22_OneRecordPerUrlInGroup ==
    SmartDone =>
        /\ OnePerUrl(LooseRecords(TreeOut))
        /\ \A k \in 1..Len(TreeOut.children) :
              TreeOut.children[k].kind = "folder" => OnePerUrl(LooseRecords(TreeOut.children[k]))
        /\ records(TreeA) \o records(TreeB) # <<>> =>
              Head(records(TreeA) \o records(TreeB)) \in Range(records(TreeOut))

\* a smart merge has put two loose records of one normalized URL, written
\* differently in A and in B, at the root of the output
C22_TwoOfOneUrlAtRoot ==
    /\ SmartDone
    /\ Len(TreeA.children) = 1 /\ Len(TreeB.children) = 1
    /\ TreeA.children[1].kind = "bookmark" /\ TreeB.children[1].kind = "bookmark"
    /\ normalize_url(TreeA.children[1].url) = normalize_url(TreeB.children[1].url)
    /\ TreeOut.children = <<TreeA.children[1], TreeB.children[1]>>



\* the attributes in which two matched records differ
DifferingKinds(b1, b2) ==
    (IF b1.title # b2.title THEN {"title"} ELSE {})
    \cup (IF b1.date_added # b2.date_added THEN {"date"} ELSE {})
    \cup (IF b1.favicon # b2.favicon THEN {"metadata"} ELSE {})

\* the recorded matches whose two records differ in some attribute
DifferingMatches ==
    SelectSeq(mrun.merger.duplicate_matches,
              LAMBDA m : DifferingKinds(heap[m[1]], heap[m[2]]) # {})

\* C23: after a keep_all merge the conflict list holds exactly one conflict
\* for every recorded match, of whatever tier, whose records differ in title,
\* date_added or favicon, in the order of the matches, with the attributes
\* that differ as its kinds; a match of records that do not differ adds none.
C23_ConflictPerDifferingMatch ==
    KeepAllDone =>
        /\ Len(mrun.merger.conflicts) = Len(DifferingMatches)
        /\ \A i \in 1..Len(DifferingMatches) :
              /\ mrun.merger.conflicts[i].bookmark1 = DifferingMatches[i][1]
              /\ mrun.merger.conflicts[i].bookmark2 = DifferingMatches[i][2]
              /\ Range(mrun.merger.conflicts[i].conflict_type)
                     = DifferingKinds(heap[DifferingMatches[i][1]], heap[DifferingMatches[i][2]])

\* a keep_all merge has recorded one match, at the fuzzy tier, of two records
\* with different titles, and no conflict
C23_FuzzyMatchWithoutConflict ==
    /\ KeepAllDone
    /\ Len(mrun.merger.duplicate_matches) = 1
    /\ mrun.merger.duplicate_matches[1][3] = "fuzzy_url"
    /\ heap[mrun.merger.duplicate_matches[1][1]].title
           # heap[mrun.merger.duplicate_matches[1][2]].title
    /\ mrun.merger.conflicts = <<>>



TimestampDone ==
    mrun.phase = "merged" /\ mrun.merger.strategy = "timestamp"

\* the records of A and then of B, in the order they are processed
RecordsInOrder ==
    records(TreeA) \o records(TreeB)

\* the first of the records of that normalized URL that no other one of
\* the URL is newer than
FirstNewest(url) ==
    RecordsInOrder[
        CHOOSE i \in 1..Len(RecordsInOrder) :
            /\ normalize_url(RecordsInOrder[i].url) = url
            /\ \A j \in 1..Len(RecordsInOrder) :
                  normalize_url(RecordsInOrder[j].url) = url =>
                      /\ RecordsInOrder[j].date_modified <= RecordsInOrder[i].date_modified
                      /\ j < i => RecordsInOrder[j].date_modified < RecordsInOrder[i].date_modified]

\* C24: the output of a timestamp merge is flat and holds exactly one record
\* for each normalized URL among the records of A and B: the one with the
\* greatest date_modified, and of several with the greatest date_modified the
\* one processed first (the records of A before those of B).
C24_NewestPerUrlFlat ==
    TimestampDone =>
        /\ \A k \in 1..Len(TreeOut.children) : TreeOut.children[k].kind = "bookmark"
        /\ OnePerUrl(TreeOut.children)
        /\ NormalizedUrls(TreeOut) = NormalizedUrls(TreeA) \cup NormalizedUrls(TreeB)
        /\ \A k \in 1..Len(TreeOut.children) :
              TreeOut.children[k] = FirstNewest(normalize_url(TreeOut.children[k].url))

\* a timestamp merge of a record of A inside folders with two records of B of
\* the same normalized URL, one as new as A's and one newer: the output is the
\* newer one alone
C24_Witness ==
    /\ TimestampDone
    /\ Len(TreeA.children) = 1 /\ TreeA.children[1].kind = "folder"
    /\ Len(records(TreeA)) = 1
    /\ Len(TreeB.children) = 2
    /\ TreeB.children[1].kind = "bookmark" /\ TreeB.children[2].kind = "bookmark"
    /\ TreeB.children[1].date_modified = records(TreeA)[1].date_modified
    /\ TreeB.children[1].title # records(TreeA)[1].title
    /\ TreeB.children[2].date_modified > records(TreeA)[1].date_modified
    /\ TreeOut.children = <<TreeB.children[2]>>



\* the URL -> hash map the journal holds for a backend
JournalSnapshot(who) ==
    IF journal[who].bookmarks = <<>> THEN <<>> ELSE journal[who].bookmarks[1]

\* an Incremental pass stands before its read of the previous state, and
\* the target can be read
BeforeDiff ==
    /\ engine.sync_mode = "incremental"
    /\ call.pc = "previous"
    /\ ~locked[target_of(call.pass)]

NoChanges(changes) ==
    /\ changes.new_bookmarks = <<>>
    /\ changes.modified_bookmarks = <<>>
    /\ changes.deleted_urls = <<>>

\* C25: in an Incremental pass the previous hash map handed to the change
\* detector is the snapshot the journal holds for the target backend, as the
\* last successful run persisted it.
C25_PreviousIsJournalSnapshot ==
    BeforeDiff =>
        previous_state(target_of(call.pass), FALSE) = JournalSnapshot(target_of(call.pass))

\* the second run of an engine, Chrome to Firefox, after a run that persisted
\* a snapshot for Firefox: the source tree has no change against that
\* snapshot, and the map handed to the change detector, taken from the rows
\* of the Firefox database, reports one
C25_DiffAgainstTargetState ==
    /\ BeforeDiff
    /\ hist.runs = 2
    /\ call.pass = "chrome_to_firefox"
    /\ JournalSnapshot("firefox") # <<>>
    /\ NoChanges(detect_changes(call.chrome_tree, JournalSnapshot("firefox")))
    /\ ~NoChanges(detect_changes(call.chrome_tree, previous_state("firefox", FALSE)))



\* the folders among the items and below them
RECURSIVE FoldersIn(_)
FoldersIn(kids) ==
    IF kids = <<>> THEN {}
    ELSE (IF Head(kids).kind = "folder"
          THEN {Head(kids)} \cup FoldersIn(Head(kids).children)
          ELSE {})
         \cup FoldersIn(Tail(kids))

\* the children of the output that a priority merge added from the secondary
\* tree: those behind the copies of the primary tree's children
FromSecondary ==
    SubSeq(TreeOut.children, Len(PrimaryTree.children) + 1, Len(TreeOut.children))

\* C26: in the output of a priority merge no folder that comes from the
\* secondary tree, at whatever depth, is without a record: a folder that
\* holds no record once the duplicates are removed is left out.
C26_NoEmptiedFolderInOutput ==
    PriorityDone =>
        \A f \in FoldersIn(FromSecondary) : records(f) # <<>>

\* a priority merge of a primary tree with one record and a secondary tree
\* with a folder whose subfolder holds a record of the same URL alone: the
\* output has the folder and its subfolder, both without a record
C26_EmptiedSubfolderKept ==
    /\ PriorityDone
    /\ Len(PrimaryTree.children) = 1 /\ PrimaryTree.children[1].kind = "bookmark"
    /\ Len(SecondaryTree.children) = 1 /\ SecondaryTree.children[1].kind = "folder"
    /\ Len(records(SecondaryTree)) = 1
    /\ normalize_url(records(SecondaryTree)[1].url) = normalize_url(PrimaryTree.children[1].url)
    /\ Len(TreeOut.children) = 2
    /\ TreeOut.children[2].kind = "folder"
    /\ TreeOut.children[2].name = SecondaryTree.children[1].name
    /\ Len(TreeOut.children[2].children) = 1
    /\ TreeOut.children[2].children[1].kind = "folder"
    /\ TreeOut.children[2].children[1].children = <<>>



\* the records of tree B as the merge flattens them
FlatB ==
    get_all_bookmarks(mrun.before, mrun.tree2)

\* the entries of the duplicate-match list whose second record is b2
MatchesOf(b2) ==
    SelectSeq(mrun.merger.duplicate_matches, LAMBDA m : m[2] = b2)

FullBothWaysDone ==
    /\ call.pc = "done"
    /\ call.direction = "bidirectional"
    /\ engine.sync_mode = "full"
    /\ ~call.dry_run
    /\ WroteOk("chrome", "firefox_to_chrome")
    /\ WroteOk("firefox", "chrome_to_firefox")

\* the records Firefox held when the call read it, in its first pass
FirefoxBefore ==
    records(call.firefox_tree)

\* C28: after a Bidirectional call in Full mode with dry_run = false whose
\* two writes succeeded, each backend holds the records Firefox held before
\* the call, and so no record that was in Chrome alone.
C28_BothHoldFirefoxTree ==
    FullBothWaysDone =>
        /\ records(read_bookmarks("chrome")) = FirefoxBefore
        /\ records(read_bookmarks("firefox")) = FirefoxBefore

\* such a call on a Firefox profile with one record and a Chrome profile with
\* another: Chrome holds Firefox's record alone, and Firefox holds its record
\* twice, the rows it had and the rows of the second pass
C28_FirefoxHoldsRecordsTwice ==
    /\ FullBothWaysDone
    /\ hist.runs = 1
    /\ Len(FirefoxBefore) = 1
    /\ records(read_bookmarks("chrome")) = FirefoxBefore
    /\ records(read_bookmarks("firefox")) = FirefoxBefore \o FirefoxBefore



\* the engine is in Merge mode and the call under way, or the last one made,
\* has a one-way direction
OneWayInMergeMode ==
    /\ engine.sync_mode = "merge"
    /\ hist.runs > 0
    /\ call.direction \in {"firefox_to_chrome", "chrome_to_firefox"}

\* C29: a sync() call with a one-way direction on an engine in Merge mode
\* runs the one-way pass of its direction as Full mode does: it never comes
\* to the lock check, the second read, the merge or the two writes of
\* _sync_bidirectional, the merger keeps the accumulators it had (those of
\* its construction, in an engine's first call), and a write that succeeds
\* has put the tree read from the source, as it was read, into the target.
C29_OneWayInMergeModeIsFull ==
    OneWayInMergeMode =>
        /\ call.pass \in {NONE, call.direction}
        /\ call.pc \notin {"lockcheck", "read_chrome", "write_chrome", "write_firefox", "previous"}
        /\ \A i \in 1..Len(hist.passes) : hist.passes[i] = call.direction
        /\ \A i \in 1..Len(hist.trace) : hist.trace[i].pass = call.direction
        /\ hist.runs = 1 => engine.merger = FreshMerger
        /\ (call.pc = "metadata" /\ call.direction = "firefox_to_chrome") =>
              /\ call.firefox_tree = firefox_read_bookmarks(firefox_db, clock - 1)
              /\ chrome_file = chrome_write_bookmarks(call.firefox_tree)
        /\ (call.pc = "metadata" /\ call.direction = "chrome_to_firefox") =>
              /\ call.chrome_tree = chrome_read_bookmarks(chrome_file, clock - 1)
              /\ \A j \in 1..Len(call.chrome_tree.children) :
                    \E root \in DOMAIN firefox_db.roots :
                        \E r \in 1..Len(firefox_db.roots[root]) :
                            firefox_db.roots[root][r].item
                                = write_bookmark_item(call.chrome_tree.children[j])

\* the first call of an engine in Merge mode with a strategy that drops
\* records, Firefox to Chrome: the write has succeeded, Chrome holds the
\* Firefox tree and nothing of what it held, and the merger is as constructed
C29_Witness ==
    /\ OneWayInMergeMode
    /\ hist.runs = 1
    /\ engine.merger.strategy = "firefox_priority"
    /\ call.direction = "firefox_to_chrome"
    /\ call.pc = "metadata"
    /\ WroteOk("chrome", "firefox_to_chrome")
    /\ chrome_file = chrome_write_bookmarks(call.firefox_tree)
    /\ records(read_bookmarks("chrome")) = records(call.firefox_tree)
    /\ engine.merger = FreshMerger




(***************************************************************************)
(* The journal over several runs (SpecJournal): each successful pass       *)
(* records the tree it wrote, and between two runs the profiles are in     *)
(* the hands of their users, so that the tree of a run is any tree.        *)
(* fn = [op, runs, targets, tree, todo, recorded]: the runs so far, the    *)
(* backends and the tree of the last pass, its metadata calls still to     *)
(* make, and the URLs recorded so far for each backend.                    *)
(***************************************************************************)
\* the trees a pass writes
JournalTrees ==
    { BookmarkFolder(FIREFOX_BOOKMARKS, 1, 1, children) :
        children \in UNION { [1..n -> ItemsT] : n \in 0..MaxChildren } }

\* the backends whose map a pass records into: the target of a one-way pass,
\* both backends after a merge
JournalTargets ==
    { <<"chrome">>, <<"firefox">>, <<"firefox", "chrome">> }

JournalInit ==
    /\ Aside
    /\ fn = [op |-> "journal", runs |-> 0, targets |-> <<>>,
             tree |-> BookmarkFolder(FIREFOX_BOOKMARKS, 1, 1, <<>>), todo |-> <<>>,
             recorded |-> [s \in Sources |-> {}]]

\* "if success:" of a pass whose write returned True: sync_time and the
\* metadata calls that follow
WriteSucceeded(targets, tree) ==
    /\ fn.op = "journal"
    /\ fn.todo = <<>>
    /\ fn.runs < MaxRuns
    /\ fn' = [fn EXCEPT !.runs = @ + 1, !.targets = targets, !.tree = tree,
                        !.todo = metadata_calls(targets, tree, clock)]
    /\ clock' = clock + 1
    /\ UNCHANGED <<engine, firefox_db, chrome_file, journal, locked, call, hist, heap, mrun>>

\* one call of set_last_sync_time or set_bookmark_hash, _save_metadata included
RecordCall ==
    /\ fn.op = "journal"
    /\ fn.todo # <<>>
    /\ LET m == Head(fn.todo)
           metadata == IF m.op = "set_last_sync_time"
                       THEN set_last_sync_time(engine.metadata, m.source, m.sync_time)
                       ELSE set_bookmark_hash(engine.metadata, m.source, m.url, m.hash_value)
       IN  /\ engine' = [engine EXCEPT !.metadata = metadata]
           /\ journal' = metadata
           /\ fn' = [fn EXCEPT !.todo = Tail(@),
                               !.recorded = IF m.op = "set_bookmark_hash"
                                            THEN [@ EXCEPT ![m.source] = @ \cup {m.url}]
                                            ELSE @]
    /\ UNCHANGED <<firefox_db, chrome_file, locked, clock, call, hist, heap, mrun>>

JournalNext ==
    \/ \E targets \in JournalTargets, tree \in JournalTrees : WriteSucceeded(targets, tree)
    \/ RecordCall

SpecJournal ==
    JournalInit /\ [][JournalNext]_vars

\* the URL keys of the map the journal holds for a backend
JournalUrls(who) ==
    Range(dict_keys(JournalSnapshot(who)))

\* C30: over any sequence of runs the URL -> hash map the journal holds for a
\* backend only grows: every URL a run has recorded for the backend is a key
\* of its map ever after, whatever trees later runs write.
C30_RecordedUrlsStay ==
    fn.op = "journal" =>
        \A s \in Sources : fn.recorded[s] \subseteq JournalUrls(s)

\* a second run has recorded the tree it wrote to Chrome, a tree with a
\* record, and the map of Chrome has a URL of the first run that this tree
\* does not have
C30_Witness ==
    /\ fn.op = "journal"
    /\ fn.runs = 2
    /\ fn.todo = <<>>
    /\ fn.targets = <<"chrome">>
    /\ records(fn.tree) # <<>>
    /\ Range(dict_keys(get_all_bookmark_hashes(fn.tree))) \subseteq JournalUrls("chrome")
    /\ \E url \in JournalUrls("chrome") :
          url \notin Range(dict_keys(get_all_bookmark_hashes(fn.tree)))

====
